---- MODULE Spec2Model ----
(***************************************************************************)
(* Model of the tiered memory manager of amduda                            *)
(* (src/amduda/src/amduda_core/memory_tiering.rs).                         *)
(*                                                                         *)
(* The manager is a capacity ledger: three tiers (Gpu, Cpu, Nvme), each    *)
(* with a limit, a used counter and a cold counter.  Every public method   *)
(* of MemoryManager is one action.  Byte counts are naturals; the model    *)
(* explores the range in which no machine-word addition wraps.             *)
(***************************************************************************)
EXTENDS Naturals, Integers, Sequences, FiniteSets, TLC

\* ---------------------------------------------------------------- bounds
MaxLimit == 2
MaxBytes == 3
MaxTotal == 4

Limits == 0..MaxLimit
Bytes == 0..MaxBytes

\* ---------------------------------------------------------------- types
MemoryTier == {"Gpu", "Cpu", "Nvme"}

Min(a, b) == IF a <= b THEN a ELSE b

SaturatingSub(a, b) == IF a >= b THEN a - b ELSE 0

VARIABLES
    mgr,        \* the MemoryManager struct
    allocated,  \* history: sum of all bytes passed to allocate
    dropped,    \* history: bytes removed from cpu_used with no tier credited
    last        \* history: the last call, its arguments, result and trace

vars == <<mgr, allocated, dropped, last>>

\* ---------------------------------------------------------------- construction
DeviceCapabilities == [has_gpu : BOOLEAN, has_nvme : BOOLEAN]

new_with_limits(caps, gpu_limit, cpu_limit, nvme_limit) ==
    [caps |-> caps,
     gpu_limit |-> gpu_limit, cpu_limit |-> cpu_limit, nvme_limit |-> nvme_limit,
     gpu_used |-> 0, cpu_used |-> 0, nvme_used |-> 0,
     gpu_cold |-> 0, cpu_cold |-> 0, nvme_cold |-> 0]

usage(m) == <<m.gpu_used, m.cpu_used, m.nvme_used>>

Used(m, t) == CASE t = "Gpu" -> m.gpu_used [] t = "Cpu" -> m.cpu_used [] OTHER -> m.nvme_used
Cold(m, t) == CASE t = "Gpu" -> m.gpu_cold [] t = "Cpu" -> m.cpu_cold [] OTHER -> m.nvme_cold
Limit(m, t) == CASE t = "Gpu" -> m.gpu_limit [] t = "Cpu" -> m.cpu_limit [] OTHER -> m.nvme_limit

\* A call in progress: the manager, the bytes it has dropped so far and the
\* counter-changing blocks it has executed inside ensure_*_space.
Call(m) == [m |-> m, dropped |-> 0, events |-> <<>>]

\* One executed eviction block: which function, cold or hot phase, the bytes
\* argument, the manager at entry of the function, and the manager right
\* before and right after the block's assignments.
Event(fn, phase, bytes, entry, pre, post) ==
    [fn |-> fn, phase |-> phase, bytes |-> bytes, entry |-> entry, pre |-> pre, post |-> post]

\* One executed eviction block of `fn`: the manager becomes `post`, and the
\* block is recorded with the manager at entry of `fn`.
Step(x, fn, phase, bytes, entry, post) ==
    [x EXCEPT !.m = post,
              !.events = Append(@, Event(fn, phase, bytes, entry, x.m, post))]

\* ---------------------------------------------------------------- ensure_cpu_space
\* line 197 / 210 / 223: does Cpu hold `bytes` more without eviction
cpu_fits(m, bytes) == m.cpu_used + bytes <= m.cpu_limit

\* line 201: evicted Cpu bytes go to Nvme only if it exists and has room
nvme_takes_NoRoomCheck(m, needed) == m.caps.has_nvme

nvme_takes_Strict(m, needed) == m.caps.has_nvme /\ m.nvme_used + needed < m.nvme_limit

nvme_takes(m, needed) == m.caps.has_nvme /\ m.nvme_used + needed <= m.nvme_limit

\* lines 177, 204, 219: the part of the deficit taken from cold bytes
cold_part_None(needed, cold) == 0

cold_part(needed, cold) == Min(needed, cold)

\* lines 203-209: migrate cold bytes first
cpu_cold_to_nvme(x, bytes, needed) ==
    IF x.m.cpu_cold > 0 THEN
      LET cold_migrate == cold_part(needed, x.m.cpu_cold) IN
      Step(x, "ensure_cpu_space", "cold", bytes, x.m,
           [x.m EXCEPT !.cpu_cold = @ - cold_migrate,
                       !.cpu_used = @ - cold_migrate,
                       !.nvme_used = @ + cold_migrate,
                       !.nvme_cold = @ + cold_migrate])
    ELSE x

\* lines 210-215: then bytes of any kind
cpu_rest_to_nvme(x, bytes, entry) ==
    IF ~cpu_fits(x.m, bytes) THEN
      LET remaining == x.m.cpu_used + bytes - x.m.cpu_limit
          migrated == Min(remaining, x.m.cpu_used)
      IN Step(x, "ensure_cpu_space", "hot", bytes, entry,
              [x.m EXCEPT !.cpu_used = @ - migrated,
                          !.nvme_used = @ + migrated])
    ELSE x

\* lines 218-222: drop cold bytes first
cpu_cold_drop(x, bytes, needed) ==
    IF x.m.cpu_cold > 0 THEN
      LET dropped1 == cold_part(needed, x.m.cpu_cold) IN
      [Step(x, "ensure_cpu_space", "cold", bytes, x.m,
            [x.m EXCEPT !.cpu_cold = @ - dropped1,
                        !.cpu_used = @ - dropped1])
         EXCEPT !.dropped = @ + dropped1]
    ELSE x

\* lines 223-227: then bytes of any kind
cpu_rest_drop(x, bytes, entry) ==
    IF ~cpu_fits(x.m, bytes) THEN
      LET remaining == x.m.cpu_used + bytes - x.m.cpu_limit
          dropped2 == Min(remaining, x.m.cpu_used)
      IN [Step(x, "ensure_cpu_space", "hot", bytes, entry,
               [x.m EXCEPT !.cpu_used = @ - dropped2])
            EXCEPT !.dropped = @ + dropped2]
    ELSE x

ensure_cpu_space_NoEviction(x, bytes) == x

ensure_cpu_space(x, bytes) ==
    IF cpu_fits(x.m, bytes) THEN x
    ELSE IF nvme_takes(x.m, x.m.cpu_used + bytes - x.m.cpu_limit)
         THEN cpu_rest_to_nvme(
                cpu_cold_to_nvme(x, bytes, x.m.cpu_used + bytes - x.m.cpu_limit), bytes, x.m)
         ELSE cpu_rest_drop(
                cpu_cold_drop(x, bytes, x.m.cpu_used + bytes - x.m.cpu_limit), bytes, x.m)

\* ---------------------------------------------------------------- ensure_gpu_space
\* lines 171 / 186: does Gpu hold `bytes` more without eviction
gpu_fits(m, bytes) == m.gpu_used + bytes <= m.gpu_limit

\* lines 180-183: x is the call after ensure_cpu_space(cold_migrate)
gpu_cold_move(x, cold_migrate, bytes, entry) ==
    Step(x, "ensure_gpu_space", "cold", bytes, entry,
         [x.m EXCEPT !.gpu_cold = @ - cold_migrate,
                     !.gpu_used = @ - cold_migrate,
                     !.cpu_used = @ + cold_migrate,
                     !.cpu_cold = @ + cold_migrate])

\* lines 174-185: migrate cold data first
gpu_cold_phase(x, bytes, cold_migrate) ==
    IF x.m.gpu_cold > 0 /\ cold_migrate > 0
    THEN gpu_cold_move(ensure_cpu_space(x, cold_migrate), cold_migrate, bytes, x.m)
    ELSE x

\* lines 191-193: x is the call after ensure_cpu_space(remaining)
gpu_rest_move_NoCredit(x, remaining, bytes, entry) ==
    LET migrated == Min(remaining, x.m.gpu_used) IN
    Step(x, "ensure_gpu_space", "hot", bytes, entry,
         [x.m EXCEPT !.gpu_used = @ - migrated])

gpu_rest_move(x, remaining, bytes, entry) ==
    LET migrated == Min(remaining, x.m.gpu_used) IN
    Step(x, "ensure_gpu_space", "hot", bytes, entry,
         [x.m EXCEPT !.gpu_used = @ - migrated,
                     !.cpu_used = @ + migrated])

gpu_rest_phase_NoRoomMade(x, bytes, entry) ==
    IF gpu_fits(x.m, bytes) THEN x
    ELSE gpu_rest_move(x, x.m.gpu_used + bytes - x.m.gpu_limit, bytes, entry)

\* lines 186-193
gpu_rest_phase(x, bytes, entry) ==
    IF gpu_fits(x.m, bytes) THEN x
    ELSE gpu_rest_move(ensure_cpu_space(x, x.m.gpu_used + bytes - x.m.gpu_limit),
                       x.m.gpu_used + bytes - x.m.gpu_limit, bytes, entry)

ensure_gpu_space(x, bytes) ==
    IF gpu_fits(x.m, bytes) THEN x
    ELSE gpu_rest_phase(
           gpu_cold_phase(x, bytes,
                          cold_part(x.m.gpu_used + bytes - x.m.gpu_limit, x.m.gpu_cold)),
           bytes, x.m)

\* ---------------------------------------------------------------- allocate
\* The result of allocate carries the call, the returned tier and `mid`, the
\* manager between the ensure_*_space call and the charge.
\* line 103: the Gpu tier is chosen by capability and limit alone
gpu_chosen_IgnoreCaps(m, bytes) == bytes <= m.gpu_limit

gpu_chosen_Strict(m, bytes) == m.caps.has_gpu /\ bytes < m.gpu_limit

gpu_chosen(m, bytes) == m.caps.has_gpu /\ bytes <= m.gpu_limit

\* line 109: after eviction, does the request fit Cpu
cpu_charge_fits_Strict(m, bytes) == m.cpu_used + bytes < m.cpu_limit

cpu_charge_fits(m, bytes) == m.cpu_used + bytes <= m.cpu_limit

\* lines 105-106: x is the call after ensure_gpu_space(bytes)
charge_gpu(x, bytes) ==
    [x |-> [x EXCEPT !.m.gpu_used = @ + bytes], ret |-> "Gpu", mid |-> x.m]

\* lines 109-115: x is the call after ensure_cpu_space(bytes)
charge_cpu_or_nvme_NoNvmeCharge(x, bytes) ==
    IF cpu_charge_fits(x.m, bytes)
    THEN [x |-> [x EXCEPT !.m.cpu_used = @ + bytes], ret |-> "Cpu", mid |-> x.m]
    ELSE [x |-> x, ret |-> "Nvme", mid |-> x.m]

charge_cpu_or_nvme_Assign(x, bytes) ==
    IF cpu_charge_fits(x.m, bytes)
    THEN [x |-> [x EXCEPT !.m.cpu_used = @ + bytes], ret |-> "Cpu", mid |-> x.m]
    ELSE [x |-> [x EXCEPT !.m.nvme_used = bytes], ret |-> "Nvme", mid |-> x.m]

charge_cpu_or_nvme(x, bytes) ==
    IF cpu_charge_fits(x.m, bytes)
    THEN [x |-> [x EXCEPT !.m.cpu_used = @ + bytes], ret |-> "Cpu", mid |-> x.m]
    ELSE [x |-> [x EXCEPT !.m.nvme_used = @ + bytes], ret |-> "Nvme", mid |-> x.m]

allocate_NoEviction(x, bytes) ==
    IF gpu_chosen(x.m, bytes) /\ gpu_fits(x.m, bytes)
    THEN charge_gpu(x, bytes)
    ELSE charge_cpu_or_nvme(x, bytes)

allocate(x, bytes) ==
    IF gpu_chosen(x.m, bytes)
    THEN charge_gpu(ensure_gpu_space(x, bytes), bytes)
    ELSE charge_cpu_or_nvme(ensure_cpu_space(x, bytes), bytes)

\* ---------------------------------------------------------------- migrate
\* The result of migrate carries the call, `moved` (the local of the same
\* name; 0 when the arm does nothing) and `mid`, the manager right before the
\* transfer.
Unmoved(x) == [x |-> x, moved |-> 0, mid |-> x.m]

gpu_to_cpu_KeepCold(x, bytes) ==
    LET moved == Min(bytes, x.m.gpu_used)
    IN [x |-> [x EXCEPT !.m.gpu_used = @ - moved,
                        !.m.cpu_used = @ + moved],
        moved |-> moved, mid |-> x.m]

\* lines 124-129: x is the call after ensure_cpu_space(bytes)
gpu_to_cpu(x, bytes) ==
    LET moved == Min(bytes, x.m.gpu_used)
        cold == Min(moved, x.m.gpu_cold)
    IN [x |-> [x EXCEPT !.m.gpu_used = @ - moved,
                        !.m.cpu_used = @ + moved,
                        !.m.gpu_cold = @ - cold,
                        !.m.cpu_cold = @ + cold],
        moved |-> moved, mid |-> x.m]

\* lines 134-139: x is the call after ensure_gpu_space(bytes)
cpu_to_gpu_NoDebit(x, bytes) ==
    LET moved == Min(bytes, x.m.cpu_used)
        cold == Min(moved, x.m.cpu_cold)
    IN [x |-> [x EXCEPT !.m.gpu_used = @ + moved,
                        !.m.cpu_cold = @ - cold,
                        !.m.gpu_cold = @ + cold],
        moved |-> moved, mid |-> x.m]

cpu_to_gpu(x, bytes) ==
    LET moved == Min(bytes, x.m.cpu_used)
        cold == Min(moved, x.m.cpu_cold)
    IN [x |-> [x EXCEPT !.m.cpu_used = @ - moved,
                        !.m.gpu_used = @ + moved,
                        !.m.cpu_cold = @ - cold,
                        !.m.gpu_cold = @ + cold],
        moved |-> moved, mid |-> x.m]

cpu_to_nvme_NoCredit(x, bytes) ==
    LET moved == Min(bytes, x.m.cpu_used)
        cold == Min(moved, x.m.cpu_cold)
    IN [x |-> [x EXCEPT !.m.cpu_used = @ - moved,
                        !.m.cpu_cold = @ - cold],
        moved |-> moved, mid |-> x.m]

\* lines 144-149
cpu_to_nvme(x, bytes) ==
    LET moved == Min(bytes, x.m.cpu_used)
        cold == Min(moved, x.m.cpu_cold)
    IN [x |-> [x EXCEPT !.m.cpu_used = @ - moved,
                        !.m.nvme_used = @ + moved,
                        !.m.cpu_cold = @ - cold,
                        !.m.nvme_cold = @ + cold],
        moved |-> moved, mid |-> x.m]

\* lines 155-159: x is the call after ensure_cpu_space(moved)
nvme_to_cpu(x, moved) ==
    LET cold == Min(moved, x.m.nvme_cold)
    IN [x |-> [x EXCEPT !.m.nvme_used = @ - moved,
                        !.m.cpu_used = @ + moved,
                        !.m.nvme_cold = @ - cold,
                        !.m.cpu_cold = @ + cold],
        moved |-> moved, mid |-> x.m]

migrate_NoNvmeGuard(x, from, to, bytes) ==
    CASE from = "Gpu" /\ to = "Cpu" -> gpu_to_cpu(ensure_cpu_space(x, bytes), bytes)
      [] from = "Cpu" /\ to = "Gpu" ->
           IF x.m.caps.has_gpu
           THEN cpu_to_gpu(ensure_gpu_space(x, bytes), bytes)
           ELSE Unmoved(x)
      [] from = "Cpu" /\ to = "Nvme" -> cpu_to_nvme(x, bytes)
      [] from = "Nvme" /\ to = "Cpu" ->
           nvme_to_cpu(ensure_cpu_space(x, Min(bytes, x.m.nvme_used)),
                       Min(bytes, x.m.nvme_used))
      [] OTHER -> Unmoved(x)

migrate_TwoHops(x, from, to, bytes) ==
    CASE from = "Gpu" /\ to = "Cpu" -> gpu_to_cpu(ensure_cpu_space(x, bytes), bytes)
      [] from = "Cpu" /\ to = "Gpu" ->
           IF x.m.caps.has_gpu
           THEN cpu_to_gpu(ensure_gpu_space(x, bytes), bytes)
           ELSE Unmoved(x)
      [] from = "Cpu" /\ to = "Nvme" ->
           IF x.m.caps.has_nvme THEN cpu_to_nvme(x, bytes) ELSE Unmoved(x)
      [] from = "Nvme" /\ to = "Cpu" ->
           nvme_to_cpu(ensure_cpu_space(x, Min(bytes, x.m.nvme_used)),
                       Min(bytes, x.m.nvme_used))
      [] from = "Gpu" /\ to = "Nvme" ->
           cpu_to_nvme(gpu_to_cpu(ensure_cpu_space(x, bytes), bytes).x, bytes)
      [] OTHER -> Unmoved(x)

migrate(x, from, to, bytes) ==
    CASE from = "Gpu" /\ to = "Cpu" -> gpu_to_cpu(ensure_cpu_space(x, bytes), bytes)
      [] from = "Cpu" /\ to = "Gpu" ->
           IF x.m.caps.has_gpu
           THEN cpu_to_gpu(ensure_gpu_space(x, bytes), bytes)
           ELSE Unmoved(x)
      [] from = "Cpu" /\ to = "Nvme" ->
           IF x.m.caps.has_nvme THEN cpu_to_nvme(x, bytes) ELSE Unmoved(x)
      [] from = "Nvme" /\ to = "Cpu" ->
           nvme_to_cpu(ensure_cpu_space(x, Min(bytes, x.m.nvme_used)),
                       Min(bytes, x.m.nvme_used))
      [] OTHER -> Unmoved(x)

\* ---------------------------------------------------------------- mark_cold / mark_hot
mark_cold_NoClamp(m, tier, bytes) ==
    CASE tier = "Gpu" -> [m EXCEPT !.gpu_cold = @ + bytes]
      [] tier = "Cpu" -> [m EXCEPT !.cpu_cold = @ + bytes]
      [] tier = "Nvme" -> [m EXCEPT !.nvme_cold = @ + bytes]

mark_cold(m, tier, bytes) ==
    CASE tier = "Gpu" -> [m EXCEPT !.gpu_cold = @ + Min(bytes, m.gpu_used - m.gpu_cold)]
      [] tier = "Cpu" -> [m EXCEPT !.cpu_cold = @ + Min(bytes, m.cpu_used - m.cpu_cold)]
      [] tier = "Nvme" -> [m EXCEPT !.nvme_cold = @ + Min(bytes, m.nvme_used - m.nvme_cold)]

mark_hot_Reset(m, tier, bytes) ==
    CASE tier = "Gpu" -> [m EXCEPT !.gpu_cold = 0]
      [] tier = "Cpu" -> [m EXCEPT !.cpu_cold = 0]
      [] tier = "Nvme" -> [m EXCEPT !.nvme_cold = 0]

mark_hot(m, tier, bytes) ==
    CASE tier = "Gpu" -> [m EXCEPT !.gpu_cold = SaturatingSub(@, bytes)]
      [] tier = "Cpu" -> [m EXCEPT !.cpu_cold = SaturatingSub(@, bytes)]
      [] tier = "Nvme" -> [m EXCEPT !.nvme_cold = SaturatingSub(@, bytes)]

\* ---------------------------------------------------------------- the state machine
\* Calls on one manager are strictly sequential (&mut self).  `last` is "none"
\* between calls and holds the record of a call from its return until the
\* caller has read it.
NoCall(m) ==
    [op |-> "none", from |-> "None", to |-> "None", bytes |-> 0, ret |-> "None",
     pre |-> m, mid |-> m, moved |-> 0, dropped |-> 0, events |-> <<>>]

Init ==
    /\ \E caps \in DeviceCapabilities, g \in Limits, c \in Limits, n \in Limits :
         mgr = new_with_limits(caps, g, c, n)
    /\ allocated = 0
    /\ dropped = 0
    /\ last = NoCall(mgr)

\* The call leaves the manager x.m behind and is recorded in `last`.
Returns(op, from, to, bytes, ret, mid, moved, x) ==
    /\ mgr' = x.m
    /\ dropped' = dropped + x.dropped
    /\ last' = [op |-> op, from |-> from, to |-> to, bytes |-> bytes, ret |-> ret,
                pre |-> mgr, mid |-> mid, moved |-> moved,
                dropped |-> x.dropped, events |-> x.events]

AllocateReturns(bytes, r) ==
    Returns("allocate", "None", "None", bytes, r.ret, r.mid, 0, r.x)

MigrateReturns(from, to, bytes, r) ==
    Returns("migrate", from, to, bytes, "None", r.mid, r.moved, r.x)

Allocate ==
    /\ last.op = "none"
    /\ \E bytes \in Bytes :
         /\ allocated + bytes <= MaxTotal
         /\ AllocateReturns(bytes, allocate(Call(mgr), bytes))
         /\ allocated' = allocated + bytes

Migrate ==
    /\ last.op = "none"
    /\ \E from \in MemoryTier, to \in MemoryTier, bytes \in Bytes :
         /\ MigrateReturns(from, to, bytes, migrate(Call(mgr), from, to, bytes))
         /\ UNCHANGED allocated

MarkCold ==
    /\ last.op = "none"
    /\ \E tier \in MemoryTier, bytes \in Bytes :
         /\ Returns("mark_cold", tier, "None", bytes, "None", mgr, 0,
                    Call(mark_cold(mgr, tier, bytes)))
         /\ UNCHANGED allocated

MarkHot ==
    /\ last.op = "none"
    /\ \E tier \in MemoryTier, bytes \in Bytes :
         /\ Returns("mark_hot", tier, "None", bytes, "None", mgr, 0,
                    Call(mark_hot(mgr, tier, bytes)))
         /\ UNCHANGED allocated

\* The call has returned and the caller has read its result: the record of
\* the call is discarded and the manager is ready for the next call.
Return ==
    /\ last.op # "none"
    /\ last' = NoCall(mgr)
    /\ UNCHANGED <<mgr, allocated, dropped>>

Next == Allocate \/ Migrate \/ MarkCold \/ MarkHot \/ Return

Spec == Init /\ [][Next]_vars

Sum(m) == m.gpu_used + m.cpu_used + m.nvme_used

TypeOK ==
    /\ \A t \in MemoryTier : Used(mgr, t) \in 0..MaxTotal /\ Cold(mgr, t) \in 0..MaxTotal
    /\ allocated \in 0..MaxTotal
    /\ dropped \in 0..MaxTotal

\* ---------------------------------------------------------------- helpers of the properties
ReturnedFrom(op) == last.op = op

Events == {last.events[i] : i \in DOMAIN last.events}

\* The tier an eviction out of `fn`'s tier spills into.
EvictedTier(e) == IF e.fn = "ensure_gpu_space" THEN "Gpu" ELSE "Cpu"
NextSlower(e) == IF e.fn = "ensure_gpu_space" THEN "Cpu" ELSE "Nvme"

\* deficit of the ensure_*_space call the event belongs to, at its entry
Deficit(e) == Used(e.entry, EvictedTier(e)) + e.bytes - Limit(e.entry, EvictedTier(e))

\* Slow exists and has room for the Medium deficit, at entry of the call
SlowHasRoom(e) ==
    e.entry.caps.has_nvme /\ e.entry.nvme_used + Deficit(e) <= e.entry.nvme_limit

\* ---------------------------------------------------------------- C1
\* C1: after every call, every tier satisfies 0 <= cold <= used <= limit.
\* The code breaks it: allocate's Nvme fallback, migrate and the Gpu eviction
\* credit a tier without regard to its limit.
C1_TierInvariant ==
    \A t \in MemoryTier :
      /\ 0 <= Cold(mgr, t)
      /\ Cold(mgr, t) <= Used(mgr, t)
      /\ Used(mgr, t) <= Limit(mgr, t)

\* ---------------------------------------------------------------- C2
\* C2: without a slow tier (has_nvme = false) allocate never returns Nvme and
\* nvme_used stays 0.  The code charges Nvme whenever the request does not
\* fit Cpu, whatever the capabilities say.
C2_NoSlowWithoutNvme ==
    ~mgr.caps.has_nvme =>
      /\ mgr.nvme_used = 0
      /\ (ReturnedFrom("allocate") => last.ret # "Nvme")

\* ---------------------------------------------------------------- C3
\* C3: without a fast tier (has_gpu = false) allocate never returns Gpu and
\* gpu_used and gpu_cold stay 0 in every reachable state.
C3_NoFastWithoutGpu ==
    ~mgr.caps.has_gpu =>
      /\ mgr.gpu_used = 0
      /\ mgr.gpu_cold = 0
      /\ (ReturnedFrom("allocate") => last.ret # "Gpu")

\* a request within the Gpu limit was placed in Cpu because there is no Gpu
C3_Witness ==
    /\ ~mgr.caps.has_gpu
    /\ ReturnedFrom("allocate")
    /\ last.bytes > 0
    /\ last.bytes <= mgr.gpu_limit
    /\ last.ret = "Cpu"
    /\ last.pre.cpu_used > 0

\* ---------------------------------------------------------------- C4
\* C4: allocate(bytes) returns Gpu exactly when has_gpu and bytes <= gpu_limit;
\* then room has been made in Gpu first (the request fits after the
\* eviction), gpu_used is charged by exactly bytes and nothing else changes
\* with the charge, and on return gpu_used <= gpu_limit.
C4_AllocateFast ==
    ReturnedFrom("allocate") =>
      /\ (last.ret = "Gpu") <=> (last.pre.caps.has_gpu /\ last.bytes <= last.pre.gpu_limit)
      /\ (last.ret = "Gpu") =>
           /\ last.mid.gpu_used + last.bytes <= last.mid.gpu_limit
           /\ \A e \in Events : e.fn = "ensure_gpu_space" => e.bytes = last.bytes /\ e.entry = last.pre
           /\ mgr = [last.mid EXCEPT !.gpu_used = @ + last.bytes]
           /\ mgr.gpu_used <= mgr.gpu_limit

\* Gpu was chosen although the request did not fit beside what Gpu held
C4_Witness ==
    /\ ReturnedFrom("allocate")
    /\ last.ret = "Gpu"
    /\ last.bytes = last.pre.gpu_limit
    /\ last.pre.gpu_used + last.bytes > last.pre.gpu_limit
    /\ last.mid.gpu_used < last.pre.gpu_used

\* ---------------------------------------------------------------- C5
\* C5: when allocate does not choose Gpu it first runs the Cpu eviction for
\* bytes, then returns Cpu and charges cpu_used by bytes exactly when
\* cpu_used + bytes <= cpu_limit after that eviction, and otherwise returns
\* Nvme and charges nvme_used by bytes; one tier is charged, by exactly bytes.
C5_AllocateFallThrough ==
    (ReturnedFrom("allocate") /\ ~(last.pre.caps.has_gpu /\ last.bytes <= last.pre.gpu_limit)) =>
      /\ \A e \in Events : e.fn = "ensure_cpu_space" /\ e.bytes = last.bytes /\ e.entry = last.pre
      /\ last.mid = IF last.events = <<>> THEN last.pre
                    ELSE last.events[Len(last.events)].post
      /\ (last.pre.cpu_used + last.bytes > last.pre.cpu_limit /\ last.pre.cpu_used > 0)
           => last.mid.cpu_used < last.pre.cpu_used
      /\ (last.ret = "Cpu") <=> (last.mid.cpu_used + last.bytes <= last.mid.cpu_limit)
      /\ (last.ret = "Cpu") => mgr = [last.mid EXCEPT !.cpu_used = @ + last.bytes]
      /\ (last.ret # "Cpu") =>
           /\ last.ret = "Nvme"
           /\ mgr = [last.mid EXCEPT !.nvme_used = @ + last.bytes]

\* Cpu was charged after an eviction made the request fit exactly
C5_Witness ==
    /\ ReturnedFrom("allocate")
    /\ last.ret = "Cpu"
    /\ last.events # <<>>
    /\ last.bytes > 0
    /\ mgr.cpu_used = mgr.cpu_limit

\* ---------------------------------------------------------------- C6
\* what one eviction block took out of its tier and put into the next slower one
EvictedUsed(e) == Used(e.pre, EvictedTier(e)) - Used(e.post, EvictedTier(e))
EvictedCold(e) == Cold(e.pre, EvictedTier(e)) - Cold(e.post, EvictedTier(e))
CreditedUsed(e) == Used(e.post, NextSlower(e)) - Used(e.pre, NextSlower(e))
CreditedCold(e) == Cold(e.post, NextSlower(e)) - Cold(e.pre, NextSlower(e))

\* Cold bytes go first, by min(deficit, cold), and hot bytes only once no cold
\* byte is left and only for the rest of the deficit.
ColdBytesFirst(e) ==
    /\ Deficit(e) > 0
    /\ e.phase = "cold" =>
         /\ EvictedCold(e) = Min(Deficit(e), Cold(e.entry, EvictedTier(e)))
         /\ EvictedUsed(e) = EvictedCold(e)
    /\ e.phase = "hot" =>
         /\ Cold(e.pre, EvictedTier(e)) = 0
         /\ EvictedCold(e) = 0
         /\ EvictedUsed(e) <= Deficit(e) - Cold(e.entry, EvictedTier(e))

\* allocate's own ensure_*_space call takes min(deficit, cold) cold bytes
ColdBytesFirstInAllocate ==
    ReturnedFrom("allocate") =>
      /\ (last.ret = "Gpu" /\ last.pre.gpu_used + last.bytes > last.pre.gpu_limit) =>
           last.pre.gpu_cold - last.mid.gpu_cold =
             Min(last.pre.gpu_used + last.bytes - last.pre.gpu_limit, last.pre.gpu_cold)
      /\ (last.ret # "Gpu" /\ last.pre.cpu_used + last.bytes > last.pre.cpu_limit) =>
           last.pre.cpu_cold - last.mid.cpu_cold =
             Min(last.pre.cpu_used + last.bytes - last.pre.cpu_limit, last.pre.cpu_cold)

ArriveCold(e) == CreditedCold(e) = EvictedCold(e) /\ CreditedUsed(e) = EvictedUsed(e)

\* C6 as stated: whenever room is made in Gpu or Cpu with a deficit D > 0, cold
\* decreases by min(D, cold) and those bytes arrive in the next slower tier,
\* still cold; hot bytes go only for the rest of the deficit.  It fails for
\* Cpu evictions that drop: the cold bytes arrive nowhere.
C6_ColdFirstAlwaysArrive ==
    /\ ColdBytesFirstInAllocate
    /\ \A e \in Events :
         /\ ColdBytesFirst(e)
         /\ e.phase = "cold" => ArriveCold(e)

\* C6 amended: as above, but the cold bytes evicted from Cpu arrive in Nvme
\* (still cold) only when Nvme exists and has room for the deficit; otherwise
\* they are dropped and no Nvme counter changes.
C6_ColdFirst ==
    /\ ColdBytesFirstInAllocate
    /\ \A e \in Events :
         /\ ColdBytesFirst(e)
         /\ (e.phase = "cold" /\ (e.fn = "ensure_gpu_space" \/ SlowHasRoom(e))) => ArriveCold(e)
         /\ (e.phase = "cold" /\ e.fn = "ensure_cpu_space" /\ ~SlowHasRoom(e)) =>
              CreditedCold(e) = 0 /\ CreditedUsed(e) = 0

\* one Gpu eviction took a cold byte and then a hot byte, and the Cpu eviction
\* it cascaded into moved a cold byte on to Nvme
C6_Witness ==
    /\ \E e \in Events : e.fn = "ensure_gpu_space" /\ e.phase = "cold" /\ EvictedCold(e) > 0
    /\ \E e \in Events : e.fn = "ensure_gpu_space" /\ e.phase = "hot" /\ EvictedUsed(e) > 0
    /\ \E e \in Events : e.fn = "ensure_cpu_space" /\ e.phase = "cold" /\ EvictedCold(e) > 0

\* ---------------------------------------------------------------- C7
\* C7: bytes evicted from Cpu are credited to Nvme exactly when has_nvme holds
\* and nvme_used + deficit <= nvme_limit at entry of ensure_cpu_space;
\* otherwise they leave cpu_used (and cpu_cold) and no tier is credited.  A
\* Cpu eviction never raises nvme_used above nvme_limit.
C7_MediumEvictionTarget ==
    \A e \in Events :
      e.fn = "ensure_cpu_space" =>
        /\ e.post.gpu_used = e.pre.gpu_used /\ e.post.gpu_cold = e.pre.gpu_cold
        /\ SlowHasRoom(e) =>
             /\ CreditedUsed(e) = EvictedUsed(e)
             /\ CreditedCold(e) = EvictedCold(e)
             /\ e.post.nvme_used <= e.post.nvme_limit
        /\ ~SlowHasRoom(e) =>
             /\ CreditedUsed(e) = 0
             /\ CreditedCold(e) = 0

\* one call in which a Cpu eviction filled Nvme to its limit and a later Cpu
\* eviction, finding no room, dropped bytes
C7_Witness ==
    /\ \E e \in Events :
         /\ e.fn = "ensure_cpu_space" /\ SlowHasRoom(e)
         /\ EvictedUsed(e) > 0 /\ e.post.nvme_used = e.post.nvme_limit
    /\ \E e \in Events :
         /\ e.fn = "ensure_cpu_space" /\ ~SlowHasRoom(e) /\ e.entry.caps.has_nvme
         /\ EvictedUsed(e) > 0

\* ---------------------------------------------------------------- C8
\* C8: with the slow tier enabled and nvme_limit at least the sum of all bytes
\* passed to allocate, nothing is ever discarded: the three used counters add
\* up to that sum.  The code discards: migrate sizes its eviction by the
\* bytes argument, not by what it moves.
C8_NoLossWithAmpleSlow ==
    (mgr.caps.has_nvme /\ mgr.nvme_limit >= allocated) => Sum(mgr) = allocated

\* ---------------------------------------------------------------- C9
\* C9 as stated: sum of used over the tiers MINUS the bytes ever discarded
\* equals the sum of the bytes charged by allocate.
C9_UsedMinusDiscarded == Sum(mgr) - dropped = allocated

\* C9 amended: sum of used over the tiers PLUS the bytes ever discarded equals
\* the sum of the bytes charged by allocate.
C9_Conservation == Sum(mgr) + dropped = allocated

\* a call has just discarded bytes while other bytes stay charged
C9_Witness ==
    /\ last.dropped > 0
    /\ dropped > last.dropped
    /\ Sum(mgr) > 0

\* ---------------------------------------------------------------- C10
AdjacentAvailable(m, from, to) ==
    \/ from = "Gpu" /\ to = "Cpu"
    \/ from = "Cpu" /\ to = "Gpu" /\ m.caps.has_gpu
    \/ from = "Cpu" /\ to = "Nvme" /\ m.caps.has_nvme
    \/ from = "Nvme" /\ to = "Cpu"

\* C10: migrate(from, to, bytes) between adjacent tiers with an available
\* destination transfers exactly min(bytes, U), U being used[from] when
\* migrate is called.  The Cpu -> Gpu arm computes `moved` from cpu_used
\* after ensure_gpu_space has changed it.
C10_MigrateAmount ==
    (ReturnedFrom("migrate") /\ AdjacentAvailable(last.pre, last.from, last.to)) =>
      /\ last.moved = Min(last.bytes, Used(last.pre, last.from))
      /\ Used(last.mid, last.from) - Used(mgr, last.from) = last.moved
      /\ Used(mgr, last.to) - Used(last.mid, last.to) = last.moved

\* ---------------------------------------------------------------- C11
\* C11: migrate into an unavailable tier is a no-op: migrate(_, Gpu, n) without
\* has_gpu and migrate(_, Nvme, n) without has_nvme leave all six counters
\* unchanged, for every n.
C11_MigrateToUnavailable ==
    (/\ ReturnedFrom("migrate")
     /\ \/ last.to = "Gpu" /\ ~last.pre.caps.has_gpu
        \/ last.to = "Nvme" /\ ~last.pre.caps.has_nvme) =>
      /\ mgr = last.pre
      /\ last.moved = 0
      /\ last.events = <<>>

\* Cpu held cold and hot bytes and was asked to move some to a missing Nvme
C11_Witness ==
    /\ ReturnedFrom("migrate")
    /\ last.from = "Cpu" /\ last.to = "Nvme"
    /\ ~last.pre.caps.has_nvme
    /\ last.bytes > 0
    /\ last.pre.cpu_cold > 0
    /\ last.pre.cpu_used > last.pre.cpu_cold

\* ---------------------------------------------------------------- C12
\* C12: when migrate(from, to, bytes) transfers m bytes, the cold bytes it
\* transfers are min(m, C), C being cold[from] when migrate is called:
\* cold[from] decreases by that amount and cold[to] is credited with it.
\* The code takes the minimum with cold[from] as its own eviction left it.
C12_ColdTransferred ==
    (ReturnedFrom("migrate") /\ last.moved > 0) =>
      /\ Cold(last.mid, last.from) - Cold(mgr, last.from)
           = Min(last.moved, Cold(last.pre, last.from))
      /\ Cold(mgr, last.to) - Cold(last.mid, last.to)
           = Min(last.moved, Cold(last.pre, last.from))

\* ---------------------------------------------------------------- C13
\* cold[tier] set to c, every other field as in m
WithCold(m, tier, c) ==
    CASE tier = "Gpu" -> [m EXCEPT !.gpu_cold = c]
      [] tier = "Cpu" -> [m EXCEPT !.cpu_cold = c]
      [] tier = "Nvme" -> [m EXCEPT !.nvme_cold = c]

\* C13: mark_cold(T, n) sets cold[T] to min(used[T], cold[T] + n), mark_hot(T, n)
\* sets it to max(0, cold[T] - n); used of every tier and cold of the other
\* tiers are unchanged, and neither call fails (the subtraction used - cold in
\* mark_cold never goes below zero).
C13_MarkColdMarkHot ==
    /\ ReturnedFrom("mark_cold") =>
         /\ Used(last.pre, last.from) >= Cold(last.pre, last.from)
         /\ mgr = WithCold(last.pre, last.from,
                           Min(Used(last.pre, last.from),
                               Cold(last.pre, last.from) + last.bytes))
    /\ ReturnedFrom("mark_hot") =>
         mgr = WithCold(last.pre, last.from,
                        IF Cold(last.pre, last.from) >= last.bytes
                        THEN Cold(last.pre, last.from) - last.bytes
                        ELSE 0)

\* a mark_cold that asked for more than the hot bytes of a tier that already
\* held cold and hot bytes
C13_Witness ==
    /\ ReturnedFrom("mark_cold")
    /\ Used(last.pre, last.from) > Cold(last.pre, last.from)
    /\ Cold(last.pre, last.from) > 0
    /\ last.bytes > Used(last.pre, last.from) - Cold(last.pre, last.from)
    /\ Cold(mgr, last.from) = Used(mgr, last.from)

\* ---------------------------------------------------------------- back-to-back calls
\* A caller issues a second call right after the first one, with the same
\* arguments: mark_hot after mark_cold, and the reverse migrate after a
\* migrate.  The record of the pair keeps `pre` (the manager before the first
\* call), the arguments and `moved` of the first call, `mid` (the manager
\* between the two calls) and the events of both calls.
MarkColdThenMarkHot ==
    /\ last.op = "mark_cold"
    /\ mgr' = mark_hot(mgr, last.from, last.bytes)
    /\ last' = [last EXCEPT !.op = "mark_cold;mark_hot", !.mid = mgr]
    /\ UNCHANGED <<allocated, dropped>>

MigratedBack(r) ==
    /\ mgr' = r.x.m
    /\ dropped' = dropped + r.x.dropped
    /\ last' = [last EXCEPT !.op = "migrate;migrate", !.mid = mgr,
                            !.dropped = @ + r.x.dropped,
                            !.events = @ \o r.x.events]

MigrateThenMigrateBack ==
    /\ last.op = "migrate"
    /\ MigratedBack(migrate(Call(mgr), last.to, last.from, last.bytes))
    /\ UNCHANGED allocated

NextBackToBack == Next \/ MarkColdThenMarkHot \/ MigrateThenMigrateBack

SpecBackToBack == Init /\ [][NextBackToBack]_vars

\* ---------------------------------------------------------------- C14
\* C14 as stated: for n <= used[T], mark_cold(T, n) immediately followed by
\* mark_hot(T, n) restores cold[T].  mark_cold clamps at used[T] while mark_hot
\* still subtracts the whole n, so bytes that were already cold become hot.
C14_RestoresWithinUsed ==
    (ReturnedFrom("mark_cold;mark_hot") /\ last.bytes <= Used(last.pre, last.from)) =>
      Cold(mgr, last.from) = Cold(last.pre, last.from)

\* C14 amended: for n <= used[T] - cold[T] (n no larger than the hot bytes of
\* T), mark_cold(T, n) immediately followed by mark_hot(T, n) restores cold[T],
\* and with it the whole manager.
C14_RestoresWithinHot ==
    (/\ ReturnedFrom("mark_cold;mark_hot")
     /\ last.bytes <= Used(last.pre, last.from) - Cold(last.pre, last.from)) =>
      /\ Cold(last.mid, last.from) = Cold(last.pre, last.from) + last.bytes
      /\ mgr = last.pre

C14_Witness ==
    /\ ReturnedFrom("mark_cold;mark_hot")
    /\ last.bytes > 0
    /\ Cold(last.pre, last.from) > 0
    /\ last.bytes <= Used(last.pre, last.from) - Cold(last.pre, last.from)
    /\ Cold(last.mid, last.from) > Cold(last.pre, last.from)

\* ---------------------------------------------------------------- C15
\* no call of the record evicted a byte: every eviction block that ran left
\* the counters as they were
NoByteEvicted == \A e \in Events : e.post = e.pre

TierAvailable(m, t) ==
    /\ t = "Gpu" => m.caps.has_gpu
    /\ t = "Nvme" => m.caps.has_nvme

\* C15 as stated: if neither call evicts, migrate(A, B, n) followed by
\* migrate(B, A, n) restores used[A] and used[B].  When A holds fewer than n
\* bytes the first call moves what A has and the second one moves n back out
\* of what B already held.
C15_RoundTrip ==
    (ReturnedFrom("migrate;migrate") /\ NoByteEvicted) =>
      /\ Used(mgr, last.from) = Used(last.pre, last.from)
      /\ Used(mgr, last.to) = Used(last.pre, last.to)

\* C15 amended: if neither call evicts, n <= used[A] before the first call and
\* neither A nor B is a disabled tier (Gpu without has_gpu, Nvme without
\* has_nvme), migrate(A, B, n) followed by migrate(B, A, n) restores used[A]
\* and used[B].
C15_RoundTripOfHeldBytes ==
    (/\ ReturnedFrom("migrate;migrate")
     /\ NoByteEvicted
     /\ last.bytes <= Used(last.pre, last.from)
     /\ TierAvailable(last.pre, last.from)
     /\ TierAvailable(last.pre, last.to)) =>
      /\ Used(mgr, last.from) = Used(last.pre, last.from)
      /\ Used(mgr, last.to) = Used(last.pre, last.to)

\* n > 0 bytes went from A to B and came back, B holding bytes of its own
C15_Witness ==
    /\ ReturnedFrom("migrate;migrate")
    /\ NoByteEvicted
    /\ last.bytes > 0
    /\ last.bytes <= Used(last.pre, last.from)
    /\ TierAvailable(last.pre, last.from)
    /\ TierAvailable(last.pre, last.to)
    /\ Used(last.pre, last.to) > 0
    /\ Used(last.mid, last.to) = Used(last.pre, last.to) + last.bytes
    /\ Used(mgr, last.to) = Used(last.pre, last.to)

\* ---------------------------------------------------------------- C17
\* C17: allocate never evicts from Nvme: no call of allocate decreases
\* nvme_used or nvme_cold, and the only call that decreases nvme_used is
\* migrate(Nvme, Cpu, _).
C17_SlowNeverEvicted ==
    /\ ReturnedFrom("allocate") =>
         /\ mgr.nvme_used >= last.pre.nvme_used
         /\ mgr.nvme_cold >= last.pre.nvme_cold
         /\ \A e \in Events : /\ e.post.nvme_used >= e.pre.nvme_used
                              /\ e.post.nvme_cold >= e.pre.nvme_cold
    /\ mgr.nvme_used < last.pre.nvme_used =>
         ReturnedFrom("migrate") /\ last.from = "Nvme" /\ last.to = "Cpu"

\* allocate fell through to a full Nvme after its eviction had also failed to
\* place Cpu's bytes there
C17_Witness ==
    /\ ReturnedFrom("allocate")
    /\ last.ret = "Nvme"
    /\ last.bytes > 0
    /\ last.pre.nvme_used > 0
    /\ last.pre.nvme_used >= last.pre.nvme_limit
    /\ last.events # <<>>
    /\ mgr.nvme_used = last.pre.nvme_used + last.bytes

\* ---------------------------------------------------------------- machine words
\* The counters, limits and byte arguments are usize.  The operators above
\* compute in the naturals, so a call's record shows every sum the code forms
\* with its exact value: the sum does not fit the word exactly when that
\* value exceeds WordMax.  Up to the first such sum the naturals and the
\* machine agree.  At that sum a debug build panics and a release build wraps
\* the counter; the manager is followed up to that call and not beyond.
WordBits == 2

WordMax == 2^WordBits - 1

Word == 0..WordMax

\* lines 171, 197 and 201: the sums formed by the fit tests of an eviction
FitSumOverflows(e) ==
    \/ Used(e.entry, EvictedTier(e)) + e.bytes > WordMax
    \/ /\ e.fn = "ensure_cpu_space"
       /\ e.entry.caps.has_nvme
       /\ e.entry.nvme_used + Deficit(e) > WordMax

\* a `+=` left a counter of m above the word
CounterOverflows(m) ==
    \E t \in MemoryTier : Used(m, t) > WordMax \/ Cold(m, t) > WordMax

\* Some addition of the recorded call does not fit a word: a fit test or a
\* `+=` of an eviction, line 109's cpu_used + bytes, or a `+=` of the charge
\* or of the transfer.
AdditionOverflows ==
    \/ \E e \in Events : FitSumOverflows(e) \/ CounterOverflows(e.post)
    \/ /\ ReturnedFrom("allocate")
       /\ last.ret # "Gpu"
       /\ last.mid.cpu_used + last.bytes > WordMax
    \/ CounterOverflows(mgr)

\* lines 237, 241, 245: used - cold of mark_cold goes below zero
SubtractionUnderflows ==
    ReturnedFrom("mark_cold") /\ Used(last.pre, last.from) < Cold(last.pre, last.from)

InitWord ==
    /\ \E caps \in DeviceCapabilities, g \in Word, c \in Word, n \in Word :
         mgr = new_with_limits(caps, g, c, n)
    /\ allocated = 0
    /\ dropped = 0
    /\ last = NoCall(mgr)

\* The call leaves the manager x.m behind and is recorded in `last`; the
\* totals `allocated` and `dropped` are not kept here.
ReturnsWord(op, from, to, bytes, ret, mid, moved, x) ==
    /\ mgr' = x.m
    /\ last' = [op |-> op, from |-> from, to |-> to, bytes |-> bytes, ret |-> ret,
                pre |-> mgr, mid |-> mid, moved |-> moved,
                dropped |-> x.dropped, events |-> x.events]
    /\ UNCHANGED <<allocated, dropped>>

AllocateReturnsWord(bytes, r) ==
    ReturnsWord("allocate", "None", "None", bytes, r.ret, r.mid, 0, r.x)

MigrateReturnsWord(from, to, bytes, r) ==
    ReturnsWord("migrate", from, to, bytes, "None", r.mid, r.moved, r.x)

AllocateWord ==
    /\ last.op = "none"
    /\ \E bytes \in Word :
         /\ AllocateReturnsWord(bytes, allocate(Call(mgr), bytes))

MigrateWord ==
    /\ last.op = "none"
    /\ \E from \in MemoryTier, to \in MemoryTier, bytes \in Word :
         /\ MigrateReturnsWord(from, to, bytes, migrate(Call(mgr), from, to, bytes))

MarkColdWord ==
    /\ last.op = "none"
    /\ \E tier \in MemoryTier, bytes \in Word :
         /\ ReturnsWord("mark_cold", tier, "None", bytes, "None", mgr, 0,
                        Call(mark_cold(mgr, tier, bytes)))

MarkHotWord ==
    /\ last.op = "none"
    /\ \E tier \in MemoryTier, bytes \in Word :
         /\ ReturnsWord("mark_hot", tier, "None", bytes, "None", mgr, 0,
                        Call(mark_hot(mgr, tier, bytes)))

\* only a call whose arithmetic stayed within the word is followed further
ReturnWord ==
    /\ last.op # "none"
    /\ ~AdditionOverflows
    /\ ~SubtractionUnderflows
    /\ last' = NoCall(mgr)
    /\ UNCHANGED <<mgr, allocated, dropped>>

NextWord == AllocateWord \/ MigrateWord \/ MarkColdWord \/ MarkHotWord \/ ReturnWord

SpecWord == InitWord /\ [][NextWord]_vars

\* ---------------------------------------------------------------- C16
\* C16: allocate, migrate, mark_cold and mark_hot are total on machine words:
\* for every reachable state and every word argument no addition overflows
\* and no subtraction underflows inside them.  The code adds with plain `+`
\* and `+=`, which overflow once a counter plus the argument passes the word.
C16_NoOverflowNoUnderflow ==
    /\ ~AdditionOverflows
    /\ ~SubtractionUnderflows

\* ---------------------------------------------------------------- the repository's test runs
\* tests/test_memory_tiering.rs builds its managers with byte counts far above
\* Limits and Bytes.  SpecTests adds two of them to the managers of Spec: the
\* manager of gpu_caching_and_migration and the one of cpu_and_nvme_fallback,
\* each taking allocate calls with the byte counts the tests pass.
GpuTestManager ==
    new_with_limits([has_gpu |-> TRUE, has_nvme |-> TRUE], 64, 64, 256)

CpuTestManager ==
    new_with_limits([has_gpu |-> FALSE, has_nvme |-> TRUE], 0, 64, 512)

TestManagers == {GpuTestManager, CpuTestManager}

TestBytes == {32, 48, 64, 128}

\* the largest total a test allocates (32 + 64 + 128)
MaxTestTotal == 224

\* m with the usage u = <<gpu_used, cpu_used, nvme_used>>
WithUsage(m, u) ==
    [m EXCEPT !.gpu_used = u[1], !.cpu_used = u[2], !.nvme_used = u[3]]

\* the manager was built by one of the two tests
TestRun ==
    new_with_limits(mgr.caps, mgr.gpu_limit, mgr.cpu_limit, mgr.nvme_limit)
      \in TestManagers

InitTests ==
    \/ Init
    \/ /\ mgr \in TestManagers
       /\ allocated = 0
       /\ dropped = 0
       /\ last = NoCall(mgr)

AllocateTest ==
    \E bytes \in TestBytes :
      /\ TestRun
      /\ last.op = "none"
      /\ allocated + bytes <= MaxTestTotal
      /\ AllocateReturns(bytes, allocate(Call(mgr), bytes))
      /\ allocated' = allocated + bytes

NextTests ==
    \/ ~TestRun /\ Allocate
    \/ ~TestRun /\ Migrate
    \/ ~TestRun /\ MarkCold
    \/ ~TestRun /\ MarkHot
    \/ AllocateTest
    \/ Return

SpecTests == InitTests /\ [][NextTests]_vars

\* ---------------------------------------------------------------- C18
\* a Gpu eviction block credits Cpu with exactly what Gpu loses and touches
\* nothing else: nothing goes to Nvme, nothing is dropped
GpuBlockCreditsCpu(e) ==
    /\ e.post.gpu_used <= e.pre.gpu_used
    /\ e.post = [e.pre EXCEPT
                   !.gpu_used = e.post.gpu_used,
                   !.gpu_cold = e.post.gpu_cold,
                   !.cpu_used = @ + (e.pre.gpu_used - e.post.gpu_used),
                   !.cpu_cold = @ + (e.pre.gpu_cold - e.post.gpu_cold)]

\* a Cpu eviction block hands everything Cpu loses to Nvme
CpuBlockPushesToNvme(e) ==
    /\ e.post.gpu_used = e.pre.gpu_used
    /\ e.post.nvme_used - e.pre.nvme_used = e.pre.cpu_used - e.post.cpu_used

\* a Cpu eviction block hands what Cpu loses to Nvme if Nvme exists and had
\* room for the deficit, and to nobody otherwise
CpuBlockPushesOrDrops(e) ==
    /\ e.post.gpu_used = e.pre.gpu_used
    /\ e.post.nvme_used - e.pre.nvme_used =
         IF SlowHasRoom(e) THEN e.pre.cpu_used - e.post.cpu_used ELSE 0

\* The law of an allocate that returned Gpu, for a given rule of the Cpu
\* blocks: no eviction if the request fits; otherwise Gpu loses exactly its
\* deficit, block by block into Cpu, every Cpu block obeys the rule and runs
\* before the Gpu block it makes room for, and Gpu ends at its limit.
FastAllocateLaw(CpuBlock(_)) ==
    (ReturnedFrom("allocate") /\ last.ret = "Gpu") =>
      IF last.pre.gpu_used + last.bytes <= last.pre.gpu_limit
      THEN /\ last.events = <<>>
           /\ mgr = [last.pre EXCEPT !.gpu_used = @ + last.bytes]
      ELSE /\ last.pre.gpu_used - last.mid.gpu_used
                = last.pre.gpu_used + last.bytes - last.pre.gpu_limit
           /\ \A e \in Events :
                IF e.fn = "ensure_gpu_space" THEN GpuBlockCreditsCpu(e) ELSE CpuBlock(e)
           /\ last.events # <<>>
           /\ last.events[Len(last.events)].fn = "ensure_gpu_space"
           /\ mgr.gpu_used = mgr.gpu_limit

\* gpu_caching_and_migration: limits (64, 64, 256), allocate 32, 48, 64
FastAllocateExample ==
    (ReturnedFrom("allocate") /\ last.ret = "Gpu") =>
      /\ (last.pre = GpuTestManager /\ last.bytes = 32) =>
           usage(mgr) = <<32, 0, 0>>
      /\ (last.pre = WithUsage(GpuTestManager, <<32, 0, 0>>) /\ last.bytes = 48) =>
           usage(mgr) = <<64, 16, 0>>
      /\ (last.pre = WithUsage(GpuTestManager, <<64, 16, 0>>) /\ last.bytes = 64) =>
           usage(mgr) = <<64, 64, 16>>

\* C18 as stated: an allocate that returns Gpu evicts nothing if the request
\* fits, and otherwise exactly used + bytes - limit bytes from Gpu, all
\* credited to Cpu, with Cpu first pushing its own overflow to Nvme, and
\* gpu_used = gpu_limit on return.  Cpu's overflow is dropped instead when
\* Nvme is disabled or lacks room for it.
C18_FastAllocatePushesToSlow ==
    /\ FastAllocateLaw(CpuBlockPushesToNvme)
    /\ FastAllocateExample

\* C18 amended: as above, with Cpu first making room by its own rule: its
\* overflow goes to Nvme when Nvme is enabled and has room for the deficit,
\* and is dropped otherwise.  With limits (64, 64, 256) and both tiers
\* enabled, allocate 32, 48, 64 gives usage (32,0,0), (64,16,0), (64,64,16).
C18_FastAllocate ==
    /\ FastAllocateLaw(CpuBlockPushesOrDrops)
    /\ FastAllocateExample

\* the third allocate of the test: Gpu evicts 64 bytes into Cpu, which first
\* pushes its 16 bytes to Nvme
C18_Witness ==
    /\ ReturnedFrom("allocate")
    /\ last.ret = "Gpu"
    /\ last.pre = WithUsage(GpuTestManager, <<64, 16, 0>>)
    /\ last.bytes = 64
    /\ allocated = 144
    /\ Len(last.events) = 2
    /\ usage(mgr) = <<64, 64, 16>>

\* ---------------------------------------------------------------- C19
\* cpu_and_nvme_fallback: limits (0, 64, 512) without Gpu, allocate 32, 64, 128
SlowFallThroughExample ==
    ReturnedFrom("allocate") =>
      /\ (last.pre = CpuTestManager /\ last.bytes = 32) =>
           usage(mgr) = <<0, 32, 0>> /\ last.ret = "Cpu"
      /\ (last.pre = WithUsage(CpuTestManager, <<0, 32, 0>>) /\ last.bytes = 64) =>
           usage(mgr) = <<0, 64, 32>> /\ last.ret = "Cpu"
      /\ (last.pre = WithUsage(CpuTestManager, <<0, 64, 32>>) /\ last.bytes = 128) =>
           usage(mgr) = <<0, 0, 224>> /\ last.ret = "Nvme"

F32Bytes == 4

MaxLen == 2

MaxDim == 2

MaxWindow == 2

MaxEngineTotal == 32

EngineLimits == {0, 8, 32}

\* lengths of the slices q, k, v, the feature dimension d, the window
ComputeArgs ==
    [q_len : 0..MaxLen, k_len : 0..MaxLen, v_len : 0..MaxLen,
     d : 0..MaxDim, window : 0..MaxWindow]

BlockSparseArgs ==
    [q_len : 0..MaxLen, k_len : 0..MaxLen, v_len : 0..MaxLen,
     d : 0..MaxDim, block_size : 0..MaxWindow, block_window : 0..MaxWindow]

Engine(m) == [x |-> Call(m), calls |-> <<>>]

Logged(c, op, from, to, bytes, ret, x) ==
    [x |-> x,
     calls |-> Append(c.calls, [op |-> op, from |-> from, to |-> to,
                                bytes |-> bytes, ret |-> ret, m |-> x.m])]

AllocateLogged(c, bytes, r) == Logged(c, "allocate", "None", "None", bytes, r.ret, r.x)

MigrateLogged(c, from, to, bytes, r) == Logged(c, "migrate", from, to, bytes, "None", r.x)

mgr_allocate(c, bytes) == AllocateLogged(c, bytes, allocate(c.x, bytes))

mgr_migrate(c, from, to, bytes) ==
    MigrateLogged(c, from, to, bytes, migrate(c.x, from, to, bytes))

mgr_mark_cold(c, tier, bytes) ==
    Logged(c, "mark_cold", tier, "None", bytes, "None",
           [c.x EXCEPT !.m = mark_cold(c.x.m, tier, bytes)])

mgr_mark_hot(c, tier, bytes) ==
    Logged(c, "mark_hot", tier, "None", bytes, "None",
           [c.x EXCEPT !.m = mark_hot(c.x.m, tier, bytes)])

\* the tiers the two allocate calls returned
k_tier(c) == c.calls[1].ret
v_tier(c) == c.calls[2].ret

\* lines 69-75 (152-157): the assertions on the shapes; `% d` itself panics
\* for d = 0
shapes_accepted_NoTokenCheck(a) ==
    /\ a.k_len = a.v_len
    /\ a.d # 0
    /\ a.q_len % a.d = 0
    /\ a.k_len % a.d = 0

shapes_accepted(a) ==
    /\ a.k_len = a.v_len
    /\ a.d # 0
    /\ a.q_len % a.d = 0
    /\ a.k_len % a.d = 0
    /\ a.q_len \div a.d = a.k_len \div a.d

\* lines 152-158
block_shapes_accepted(a) == shapes_accepted(a) /\ a.block_size > 0

\* line 78 / 162
byte_len(a) == a.k_len * F32Bytes

\* lines 84-88: the keys' working set comes to Cpu if the keys are on Nvme
prefetch_k(c, window_bytes) ==
    IF k_tier(c) = "Nvme" THEN mgr_migrate(c, "Nvme", "Cpu", window_bytes) ELSE c

prefetch_v_Always(c, window_bytes) == mgr_migrate(c, "Nvme", "Cpu", window_bytes)

\* lines 89-93: likewise for the values
prefetch_v(c, window_bytes) ==
    IF v_tier(c) = "Nvme" THEN mgr_migrate(c, "Nvme", "Cpu", window_bytes) ELSE c

\* lines 78-93: the manager calls of an accepted compute
compute(c, a) ==
    prefetch_v(
      prefetch_k(mgr_allocate(mgr_allocate(c, byte_len(a)), byte_len(a)),
                 a.window * a.d * F32Bytes),
      a.window * a.d * F32Bytes)

\* line 159
n_blocks(a) == ((a.q_len \div a.d) + a.block_size - 1) \div a.block_size

\* line 168
block_bytes(a) == a.block_size * a.d * F32Bytes

\* lines 169-170
window_bytes(a) == Min(a.block_window, n_blocks(a)) * block_bytes(a)

\* lines 171-175: the initial window of the keys comes to Cpu and is hot
fetch_window_k(c, bytes) ==
    IF k_tier(c) = "Nvme"
    THEN mgr_mark_hot(mgr_migrate(c, "Nvme", "Cpu", bytes), "Cpu", bytes)
    ELSE c

\* lines 176-180: likewise for the values
fetch_window_v(c, bytes) ==
    IF v_tier(c) = "Nvme"
    THEN mgr_mark_hot(mgr_migrate(c, "Nvme", "Cpu", bytes), "Cpu", bytes)
    ELSE c

\* lines 163-180: the two allocations and the initial window
block_sparse_start(c, a) ==
    fetch_window_v(
      fetch_window_k(mgr_allocate(mgr_allocate(c, byte_len(a)), byte_len(a)),
                     window_bytes(a)),
      window_bytes(a))

\* lines 222-226 and 232-236: the oldest block of the window goes back to Nvme
evict_block(c, b, a) ==
    IF b + 1 >= a.block_window
    THEN mgr_migrate(mgr_mark_cold(c, "Cpu", block_bytes(a)),
                     "Cpu", "Nvme", block_bytes(a))
    ELSE c

\* lines 221-230 and 231-240: the cache of one buffer moves on by one block
rotate_NoMarkHot(c, tier, b, a) ==
    IF tier = "Nvme"
    THEN mgr_migrate(evict_block(c, b, a), "Nvme", "Cpu", block_bytes(a))
    ELSE c

rotate(c, tier, b, a) ==
    IF tier = "Nvme"
    THEN mgr_mark_hot(mgr_migrate(evict_block(c, b, a), "Nvme", "Cpu", block_bytes(a)),
                      "Cpu", block_bytes(a))
    ELSE c

\* lines 183-242: the manager calls of the blocks from b on
RECURSIVE block_loop(_, _, _)
block_loop(c, b, a) ==
    IF b + 1 < n_blocks(a)
    THEN block_loop(rotate(rotate(c, k_tier(c), b, a), v_tier(c), b, a), b + 1, a)
    ELSE c

\* lines 162-242: the manager calls of an accepted compute_block_sparse
compute_block_sparse(c, a) == block_loop(block_sparse_start(c, a), 0, a)

\* line 186: `block_window - 1` underflows in the first block when
\* block_window = 0
underflows(a) == a.block_window = 0 /\ n_blocks(a) > 0

InitEngine ==
    /\ \E caps \in DeviceCapabilities,
          g \in EngineLimits, c \in EngineLimits, n \in EngineLimits :
         mgr = new_with_limits(caps, g, c, n)
    /\ allocated = 0
    /\ dropped = 0
    /\ last = NoCall(mgr)

\* The engine call ends, by returning ("ok") or by a panic, and leaves the
\* manager of c behind.
EngineReturns(op, a, ret, c) ==
    /\ mgr' = c.x.m
    /\ allocated' = allocated + (IF c.calls = <<>> THEN 0 ELSE 2 * byte_len(a))
    /\ dropped' = dropped + c.x.dropped
    /\ last' = [op |-> op, from |-> "None", to |-> "None", bytes |-> byte_len(a),
                ret |-> ret, pre |-> mgr, mid |-> mgr, moved |-> 0,
                dropped |-> c.x.dropped, events |-> c.x.events,
                args |-> a, calls |-> c.calls]

Compute ==
    /\ last.op = "none"
    /\ \E a \in ComputeArgs :
         IF shapes_accepted(a)
         THEN /\ allocated + 2 * byte_len(a) <= MaxEngineTotal
              /\ EngineReturns("compute", a, "ok", compute(Engine(mgr), a))
         ELSE EngineReturns("compute", a, "panic", Engine(mgr))

\* the call returns, or is rejected by an assertion; a release build wraps
\* at line 186 and goes on
ComputeBlockSparse ==
    /\ last.op = "none"
    /\ \E a \in BlockSparseArgs :
         IF block_shapes_accepted(a)
         THEN /\ allocated + 2 * byte_len(a) <= MaxEngineTotal
              /\ EngineReturns("compute_block_sparse", a, "ok",
                               compute_block_sparse(Engine(mgr), a))
         ELSE EngineReturns("compute_block_sparse", a, "panic", Engine(mgr))

\* a debug build panics at line 186, after the allocations and the initial
\* window
ComputeBlockSparseUnderflows ==
    /\ last.op = "none"
    /\ \E a \in BlockSparseArgs :
         /\ block_shapes_accepted(a)
         /\ underflows(a)
         /\ allocated + 2 * byte_len(a) <= MaxEngineTotal
         /\ EngineReturns("compute_block_sparse", a, "panic",
                          block_sparse_start(Engine(mgr), a))

NextEngine == Compute \/ ComputeBlockSparse \/ ComputeBlockSparseUnderflows \/ Return

SpecEngine == InitEngine /\ [][NextEngine]_vars

\* ---------------------------------------------------------------- C20
\* a shape precondition of the call with arguments a is violated
ShapeViolated(a) ==
    \/ a.k_len # a.v_len
    \/ /\ a.d > 0
       /\ \/ a.q_len % a.d # 0
          \/ a.k_len % a.d # 0
          \/ a.q_len \div a.d # a.k_len \div a.d

\* the call ended in a panic without having called the manager
RejectedUntouched ==
    /\ last.ret = "panic"
    /\ last.calls = <<>>
    /\ last.events = <<>>
    /\ mgr = last.pre

\* C20: compute and compute_block_sparse fail fatally when a shape
\* precondition is violated (k.len() # v.len(), q.len() or k.len() not a
\* multiple of d, different token counts of q and k, block_size = 0 for
\* compute_block_sparse), and the failure comes before any manager call: the
\* rejected call changes no counter of the manager.
C20_RejectedBeforeCharge ==
    /\ (ReturnedFrom("compute") /\ ShapeViolated(last.args)) => RejectedUntouched
    /\ (/\ ReturnedFrom("compute_block_sparse")
        /\ (ShapeViolated(last.args) \/ last.args.block_size = 0)) => RejectedUntouched

\* a call with more query tokens than key tokens, which would have charged
\* the manager, is rejected by an engine that already holds bytes
C20_Witness ==
    /\ ReturnedFrom("compute")
    /\ last.args.d = 1
    /\ last.args.k_len = 1
    /\ last.args.v_len = 1
    /\ last.args.q_len = 2
    /\ last.ret = "panic"
    /\ Sum(last.pre) > 0
    /\ mgr = last.pre

\* ---------------------------------------------------------------------
\* The scoring loops of PagedAttention: which key indices each query
\* token is scored against.  A run of a loop is kept in `last`; the
\* manager is not touched by these loops.
\* ---------------------------------------------------------------------
MaxTokens == 5
MaxSpan == 4

Max(a, b) == IF a >= b THEN a ELSE b

\* let start = if i >= window { i + 1 - window } else { 0 };
window_start_OffByOne(i, window) == IF i >= window THEN i - window ELSE 0

window_start(i, window) == IF i >= window THEN i + 1 - window ELSE 0

\* for j in start..=i { ... scores.push((j, dot)) }
scored(start, i) == {j \in start..i : TRUE}

\* Every slice k[j * d..(j + 1) * d] taken for the keys of `keys` lies
\* inside a buffer of n tokens.
InBuffer(keys, n) == \A j \in keys : 0 <= j /\ j + 1 <= n

ScoringRun(op, n, window, block_size, block_window) ==
    [op |-> op, n |-> n, window |-> window, block_size |-> block_size,
     block_window |-> block_window, next |-> 0, scores |-> <<>>, ret |-> "running"]

InitScores ==
    /\ \E caps \in DeviceCapabilities : mgr = new_with_limits(caps, 0, 0, 0)
    /\ allocated = 0
    /\ dropped = 0
    /\ \/ \E n \in 0..MaxTokens, window \in 0..MaxSpan :
            last = ScoringRun("compute", n, window, 0, 0)
       \/ \E n \in 0..MaxTokens, block_size \in 1..MaxSpan, block_window \in 0..MaxSpan :
            last = ScoringRun("compute_block_sparse", n, 0, block_size, block_window)

\* One turn of `for i in 0..n_q`.
ScoreQuery ==
    /\ last.op = "compute"
    /\ last.ret = "running"
    /\ last.next < last.n
    /\ last' = [last EXCEPT !.next = @ + 1,
                            !.scores = Append(@, scored(window_start(last.next, last.window), last.next))]
    /\ UNCHANGED <<mgr, allocated, dropped>>

blocks_of(n, block_size) == (n + block_size - 1) \div block_size

q_end(q_start, block_size, n) == Min(q_start + block_size, n)

\* b.saturating_sub(block_window - 1), where block_window - 1 has not
\* underflowed, or has wrapped to usize::MAX (release build).
first_block_NoWindow(b, block_window) == b

first_block(b, block_window) == IF block_window = 0 THEN 0 ELSE SaturatingSub(b, block_window - 1)

ctx_start(b, block_size, block_window) == first_block(b, block_window) * block_size

\* for i in q_start..q_end { for j in ctx_start..=i { ... } }
block_scores(b, n, block_size, block_window) ==
    [t \in 1..SaturatingSub(q_end(b * block_size, block_size, n), b * block_size) |->
        scored(ctx_start(b, block_size, block_window), b * block_size + t - 1)]

\* One turn of `for b in 0..n_blocks`.
ScoreBlock ==
    /\ last.op = "compute_block_sparse"
    /\ last.ret = "running"
    /\ last.next < blocks_of(last.n, last.block_size)
    /\ last' = [last EXCEPT !.next = @ + 1,
                            !.scores = @ \o block_scores(last.next, last.n, last.block_size, last.block_window)]
    /\ UNCHANGED <<mgr, allocated, dropped>>

\* `block_window - 1` with block_window = 0 panics in a build with
\* overflow checks.
ScoreBlockUnderflows ==
    /\ last.op = "compute_block_sparse"
    /\ last.ret = "running"
    /\ last.next < blocks_of(last.n, last.block_size)
    /\ last.block_window = 0
    /\ last' = [last EXCEPT !.ret = "panic"]
    /\ UNCHANGED <<mgr, allocated, dropped>>

NextScores == ScoreQuery \/ ScoreBlock \/ ScoreBlockUnderflows

SpecScores == InitScores /\ [][NextScores]_vars

\* C21: in compute, for every query index i in [0, n) and every window >= 1,
\* the set of key indices scored for i is exactly
\* { j : max(0, i - window + 1) <= j <= i }; it is {0} for i = 0, holds no
\* j > i and no index outside [0, n); the loop scores every query once.
C21_SlidingWindow ==
    (last.op = "compute" /\ last.window >= 1) =>
        /\ \A q \in 1..Len(last.scores) :
              /\ last.scores[q] = {j \in 0..last.n - 1 : Max(0, (q - 1) - last.window + 1) <= j /\ j <= q - 1}
              /\ (q = 1 => last.scores[q] = {0})
              /\ \A j \in last.scores[q] : j <= q - 1
              /\ InBuffer(last.scores[q], last.n)
        /\ Len(last.scores) = last.next
        /\ Len(last.scores) <= last.n

\* A query beyond the window has been scored, and its window is cut at
\* the lower end.
C21_Witness ==
    /\ last.op = "compute"
    /\ last.window >= 2
    /\ last.next = last.n
    /\ last.n > last.window + 1
    /\ last.scores[last.n] = (last.n - last.window)..(last.n - 1)
    /\ last.scores[1] = {0}

\* C22: in compute_block_sparse, for every token i of block
\* b = i div block_size and every block_window >= 1, the set of key indices
\* scored for i is exactly { j : max(0, b - block_window + 1) * block_size
\* <= j <= i }; the last block may be shorter than block_size; no later
\* token and no index outside [0, n) is scored.
C22_BlockWindow ==
    (last.op = "compute_block_sparse" /\ last.block_window >= 1) =>
        /\ \A q \in 1..Len(last.scores) :
              /\ last.scores[q] =
                    {j \in 0..last.n - 1 :
                        /\ Max(0, ((q - 1) \div last.block_size) - last.block_window + 1) * last.block_size <= j
                        /\ j <= q - 1}
              /\ \A j \in last.scores[q] : j <= q - 1
              /\ InBuffer(last.scores[q], last.n)
        /\ Len(last.scores) = Min(last.next * last.block_size, last.n)
        /\ last.ret = "running"

\* All blocks are done, the last one is short, and the last token's
\* context starts at a block after the first and before its own.
C22_Witness ==
    /\ last.op = "compute_block_sparse"
    /\ last.block_window >= 2
    /\ last.block_size >= 2
    /\ last.next = blocks_of(last.n, last.block_size)
    /\ last.n % last.block_size # 0
    /\ Len(last.scores) = last.n
    /\ last.next > last.block_window
    /\ last.scores[last.n] = ((last.next - last.block_window) * last.block_size)..(last.n - 1)

\* The manager calls of the last engine call, without their results.
Issued == [i \in DOMAIN last.calls |->
             <<last.calls[i].op, last.calls[i].from, last.calls[i].to, last.calls[i].bytes>>]

PrefetchIssued(tier, a) ==
    IF tier = "Nvme"
    THEN << <<"migrate", "Nvme", "Cpu", F32Bytes * a.window * a.d>> >>
    ELSE <<>>

\* C23: each accepted compute call issues, in this order, allocate(4 * k.len())
\* for the keys, allocate(4 * k.len()) for the values, then one
\* migrate(Slow, Medium, 4 * window * feature_dim) for each buffer whose
\* allocation returned Slow, and no migrate when neither did; the tiers it
\* reports are the ones those two allocate calls returned.
C23_ComputeCalls ==
    (ReturnedFrom("compute") /\ last.ret = "ok") =>
        /\ Len(last.calls) >= 2
        /\ last.calls[1].ret = allocate(Call(last.pre), F32Bytes * last.args.k_len).ret
        /\ last.calls[2].ret = allocate(Call(last.calls[1].m), F32Bytes * last.args.k_len).ret
        /\ Issued = << <<"allocate", "None", "None", F32Bytes * last.args.k_len>>,
                       <<"allocate", "None", "None", F32Bytes * last.args.k_len>> >>
                    \o PrefetchIssued(last.calls[1].ret, last.args)
                    \o PrefetchIssued(last.calls[2].ret, last.args)
        /\ ((last.calls[1].ret # "Nvme" /\ last.calls[2].ret # "Nvme") => Len(last.calls) = 2)

\* Both buffers went to Slow: two migrates of the window's bytes follow the
\* two allocations.
C23_Witness ==
    /\ ReturnedFrom("compute")
    /\ last.ret = "ok"
    /\ last.args.window = 1
    /\ last.args.d = 2
    /\ last.calls[1].ret = "Nvme"
    /\ last.calls[2].ret = "Nvme"
    /\ Len(last.calls) = 4
    /\ last.calls[4].op = "migrate"
    /\ last.calls[4].bytes = 8

\* A manager that holds nothing.
Fresh(m) == usage(m) = <<0, 0, 0>> /\ m.gpu_cold = 0 /\ m.cpu_cold = 0 /\ m.nvme_cold = 0

\* The engine call started on a fresh engine without Fast, with Slow
\* enabled and twice as large as both buffers together, whose buffers are
\* each larger than Medium.
SpillsToSlow ==
    /\ last.ret = "ok"
    /\ Fresh(last.pre)
    /\ ~last.pre.caps.has_gpu
    /\ last.pre.caps.has_nvme
    /\ last.pre.nvme_limit >= 4 * F32Bytes * last.args.k_len
    /\ F32Bytes * last.args.k_len > last.pre.cpu_limit

\* C24: on a fresh engine with Fast disabled, Slow enabled with ample room and
\* 4 * k.len() > limit[Medium], after compute returns usage() is
\* (0, m, 8 * k.len() - m) with m = min(2 * 4 * window * d, limit[Medium]);
\* Medium is never above its limit and no byte is lost.
C24_SlidingWindowUsage ==
    (ReturnedFrom("compute") /\ SpillsToSlow) =>
        /\ usage(mgr) = <<0,
                          Min(2 * F32Bytes * last.args.window * last.args.d, mgr.cpu_limit),
                          2 * F32Bytes * last.args.k_len
                            - Min(2 * F32Bytes * last.args.window * last.args.d, mgr.cpu_limit)>>
        /\ \A i \in DOMAIN last.calls : last.calls[i].m.cpu_used <= last.calls[i].m.cpu_limit
        /\ last.dropped = 0

\* ---------------------------------------------------------------------
\* compute_block_sparse on sequences of several blocks: accepted calls
\* with one feature per token, on engines whose Medium tier is smaller
\* than the buffers.
\* ---------------------------------------------------------------------
MaxSeq == 5
MaxSeqTotal == 48
SeqLimits == {0, 8, 18}
SeqSlowLimits == {0, 64}

SeqArgs ==
    {[q_len |-> n, k_len |-> n, v_len |-> n, d |-> 1, block_size |-> s, block_window |-> w] :
        n \in 0..MaxSeq, s \in 1..MaxWindow, w \in 1..MaxWindow}

InitSeq ==
    /\ \E caps \in DeviceCapabilities, c \in SeqLimits, n \in SeqSlowLimits :
         mgr = new_with_limits(caps, 0, c, n)
    /\ allocated = 0
    /\ dropped = 0
    /\ last = NoCall(mgr)

ComputeBlockSparseSeq ==
    /\ last.op = "none"
    /\ \E a \in SeqArgs :
         /\ block_shapes_accepted(a)
         /\ allocated + 2 * byte_len(a) <= MaxSeqTotal
         /\ EngineReturns("compute_block_sparse", a, "ok",
                          compute_block_sparse(Engine(mgr), a))

NextSeq == ComputeBlockSparseSeq \/ Return

SpecSeq == InitSeq /\ [][NextSeq]_vars

\* The call started on a fresh engine whose Slow tier is enabled and holds
\* both buffers within its limit, and both buffers went to Slow.
BuffersInSlow ==
    /\ last.ret = "ok"
    /\ Fresh(last.pre)
    /\ last.pre.caps.has_nvme
    /\ last.pre.nvme_limit >= 2 * F32Bytes * last.args.k_len
    /\ last.calls[1].ret = "Nvme"
    /\ last.calls[2].ret = "Nvme"

\* C25: compute_block_sparse keeps a bounded hot window: on a fresh engine
\* whose keys and values are in Slow, at every point during the call and on
\* return used[Medium] <= 2 * block_window * block_size * d * 4, for every
\* number of blocks and every block_window >= 1.
C25_BoundedHotWindow ==
    (ReturnedFrom("compute_block_sparse") /\ BuffersInSlow /\ last.args.block_window >= 1) =>
        \A i \in DOMAIN last.calls :
            last.calls[i].m.cpu_used
                <= 2 * last.args.block_window * last.args.block_size * last.args.d * F32Bytes

\* ---------------------------------------------------------------------
\* DeviceCapabilities::detect, the free function allocate and load_model.
\* The process environment and the outcome of the last call are kept in
\* `last`, with the manager that call built; `mgr` is the manager
\* MemoryManager::new builds in that environment.
\* ---------------------------------------------------------------------
UsizeBits == 16
usize_MAX == 2^UsizeBits - 1

\* std::env::var: Err(NotPresent), Err(NotUnicode) or Ok(String); a string
\* is the sequence of its characters.
NotPresent == [kind |-> "NotPresent", s |-> <<>>]
NotUnicode == [kind |-> "NotUnicode", s |-> <<>>]
Ok(s) == [kind |-> "Ok", s |-> s]

FlagValues ==
    {NotPresent, NotUnicode, Ok(<<"1">>), Ok(<<"0">>), Ok(<<>>),
     Ok(<<"t", "r", "u", "e">>), Ok(<<" ", "1">>), Ok(<<"+", "1">>)}

SizeValues ==
    {NotPresent, NotUnicode, Ok(<<>>), Ok(<<"6", "4">>), Ok(<<"+", "6", "4">>),
     Ok(<<"-", "1">>), Ok(<<"6", "4", "k">>), Ok(<<" ", "6", "4">>),
     Ok(<<"9", "9", "9", "9", "9">>)}

Environments ==
    [AMDUDA_HAS_GPU : FlagValues, AMDUDA_HAS_NVME : FlagValues,
     AMDUDA_GPU_MEM : SizeValues, AMDUDA_CPU_MEM : SizeValues, AMDUDA_NVME_MEM : SizeValues]

DigitChars == <<"0", "1", "2", "3", "4", "5", "6", "7", "8", "9">>
IsDigit(c) == \E i \in DOMAIN DigitChars : DigitChars[i] = c
DigitValue(c) == (CHOOSE i \in DOMAIN DigitChars : DigitChars[i] = c) - 1

None == [some |-> FALSE, val |-> 0]
Some(n) == [some |-> TRUE, val |-> n]

\* the digits of str::parse::<usize>, with checked_mul and checked_add
RECURSIVE parse_digits(_, _)
parse_digits(s, acc) ==
    IF s = <<>> THEN Some(acc)
    ELSE IF ~IsDigit(Head(s)) THEN None
    ELSE IF acc > (usize_MAX - DigitValue(Head(s))) \div 10 THEN None
    ELSE parse_digits(Tail(s), acc * 10 + DigitValue(Head(s)))

RECURSIVE skip_to_digits(_)
skip_to_digits(s) ==
    IF s = <<>> \/ IsDigit(Head(s)) THEN s ELSE skip_to_digits(Tail(s))

RECURSIVE leading_digits(_)
leading_digits(s) ==
    IF s = <<>> \/ ~IsDigit(Head(s)) THEN <<>> ELSE <<Head(s)>> \o leading_digits(Tail(s))

parse_usize_Lenient(s) ==
    IF leading_digits(skip_to_digits(s)) = <<>> THEN None
    ELSE parse_digits(leading_digits(skip_to_digits(s)), 0)

\* v.parse::<usize>().ok(): an empty string, a lone sign, a `-`, any other
\* character and an overflow are errors; one leading `+` is allowed
parse_usize(s) ==
    IF s = <<>> THEN None
    ELSE IF Head(s) = "+"
         THEN (IF Tail(s) = <<>> THEN None ELSE parse_digits(Tail(s), 0))
         ELSE parse_digits(s, 0)

\* std::env::var(..).map(|v| v == "1").unwrap_or(false)
flag(v) == IF v.kind = "Ok" THEN v.s = <<"1">> ELSE FALSE

\* std::env::var(..).ok().and_then(|v| v.parse::<usize>().ok()).unwrap_or(default)
size_or(v, default) ==
    IF v.kind = "Ok" /\ parse_usize(v.s).some THEN parse_usize(v.s).val ELSE default

detect(env) ==
    [has_gpu |-> flag(env.AMDUDA_HAS_GPU),
     has_nvme |-> flag(env.AMDUDA_HAS_NVME),
     gpu_mem |-> size_or(env.AMDUDA_GPU_MEM, 1024),
     cpu_mem |-> size_or(env.AMDUDA_CPU_MEM, 8 * 1024),
     nvme_mem |-> size_or(env.AMDUDA_NVME_MEM, usize_MAX)]

\* MemoryManager::new
new(caps) ==
    new_with_limits([has_gpu |-> caps.has_gpu, has_nvme |-> caps.has_nvme],
                    caps.gpu_mem, caps.cpu_mem, caps.nvme_mem)

\* pub fn allocate(bytes): a manager of its own for every call
memory_tiering_allocate(env, bytes) == allocate(Call(new(detect(env))), bytes)

FileSizes == {0, 64, 65, 200, 1024, 8192, 8193, 9000}

\* what load_model finds on disk: whether the configuration can be read and
\* parsed and the weights exist, and the length of the weights
LoadInputs ==
    [disk : {"ok", "config unreadable", "config invalid", "weights missing"},
     size : FileSizes]

Loader(env, op, file, ret, caps, tier, weights, local) ==
    [op |-> op, env |-> env, file |-> file, ret |-> ret, caps |-> caps,
     tier |-> tier, weights |-> weights, mgr |-> local]

\* No call is in progress; no manager outlives a call.
Idle(env) == Loader(env, "none", "None", "None", "None", "None", "None", "None")

InitLoader ==
    /\ \E env \in Environments :
         /\ last = Idle(env)
         /\ mgr = new(detect(env))
    /\ allocated = 0
    /\ dropped = 0

Detect ==
    /\ last.op = "none"
    /\ last' = Loader(last.env, "detect", "None", "ok", detect(last.env), "None", "None", "None")
    /\ UNCHANGED <<mgr, allocated, dropped>>

\* match tier { MemoryTier::Nvme => Weights::Mmap(..), _ => Weights::Memory(..) }
weights_for_CpuMapped(tier) == IF tier = "Gpu" THEN "Memory" ELSE "Mmap"

weights_for(tier) == IF tier = "Nvme" THEN "Mmap" ELSE "Memory"

\* the `?` of lines 54, 55 and 58
load_fails(in) == in.disk # "ok"

\* lines 60-80: the tier of the weights, and the manager that
\* memory_tiering::allocate built and dropped
LoadReturns(in, r) ==
    last' = Loader(last.env, "load_model", in, "Ok", "None", r.ret, weights_for(r.ret), r.x.m)

LoadModel ==
    /\ last.op = "none"
    /\ \E in \in LoadInputs :
         IF load_fails(in)
         THEN last' = Loader(last.env, "load_model", in, "Err", "None", "None", "None", "None")
         ELSE LoadReturns(in, memory_tiering_allocate(last.env, in.size))
    /\ UNCHANGED <<mgr, allocated, dropped>>

ReturnLoader ==
    /\ last.op # "none"
    /\ last' = Idle(last.env)
    /\ UNCHANGED <<mgr, allocated, dropped>>

NextLoader == Detect \/ LoadModel \/ ReturnLoader

SpecLoader == InitLoader /\ [][NextLoader]_vars

\* A decimal numeral, with at most one leading `+`, and the number it
\* denotes.
Unsigned(s) == IF s # <<>> /\ Head(s) = "+" THEN Tail(s) ELSE s
Numeral(s) == Unsigned(s) # <<>> /\ \A i \in DOMAIN Unsigned(s) : IsDigit(Unsigned(s)[i])
RECURSIVE Denotes(_)
Denotes(u) == IF u = <<>> THEN 0 ELSE 10 * Denotes(SubSeq(u, 1, Len(u) - 1)) + DigitValue(u[Len(u)])

\* The option is set to a numeral that a usize holds.
WellFormedSize(v) == v.kind = "Ok" /\ Numeral(v.s) /\ Denotes(Unsigned(v.s)) <= usize_MAX

SizeDetected(v, default, got) ==
    IF WellFormedSize(v) THEN got = Denotes(Unsigned(v.s)) ELSE got = default

WellFormedFlag(v) == v.kind = "Ok" /\ v.s \in {<<"0">>, <<"1">>}

FlagDetected(v, got) ==
    /\ ~WellFormedFlag(v) => got = FALSE
    /\ got = TRUE => v = Ok(<<"1">>)

\* C28: DeviceCapabilities::detect never fails: for every combination of
\* unset, well-formed and malformed environment values it returns a record in
\* which each size option that is unset or unparseable takes its default
\* (fast 1024, medium 8192, slow usize::MAX) and each tier flag that is unset
\* or malformed is false.
C28_DetectDefaults ==
    (last.op = "detect") =>
        /\ last.ret = "ok"
        /\ SizeDetected(last.env.AMDUDA_GPU_MEM, 1024, last.caps.gpu_mem)
        /\ SizeDetected(last.env.AMDUDA_CPU_MEM, 8192, last.caps.cpu_mem)
        /\ SizeDetected(last.env.AMDUDA_NVME_MEM, usize_MAX, last.caps.nvme_mem)
        /\ FlagDetected(last.env.AMDUDA_HAS_GPU, last.caps.has_gpu)
        /\ FlagDetected(last.env.AMDUDA_HAS_NVME, last.caps.has_nvme)

\* detect has returned in an environment with a malformed flag, a size with
\* a unit suffix, a size too large for usize and an unset size.
C28_Witness ==
    /\ last.op = "detect"
    /\ last.env.AMDUDA_HAS_GPU = Ok(<<"t", "r", "u", "e">>)
    /\ last.env.AMDUDA_HAS_NVME = Ok(<<"1">>)
    /\ last.env.AMDUDA_GPU_MEM = Ok(<<"6", "4", "k">>)
    /\ last.env.AMDUDA_CPU_MEM = Ok(<<"9", "9", "9", "9", "9">>)
    /\ last.env.AMDUDA_NVME_MEM = NotPresent
    /\ last.caps = [has_gpu |-> FALSE, has_nvme |-> TRUE, gpu_mem |-> 1024,
                    cpu_mem |-> 8192, nvme_mem |-> usize_MAX]

\* The tier a manager that holds nothing gives to `size` bytes.
PlacedBySize(caps, size) ==
    IF caps.has_gpu /\ size <= caps.gpu_mem THEN "Gpu"
    ELSE IF size <= caps.cpu_mem THEN "Cpu"
    ELSE "Nvme"

\* C27: the weight loader decides placement with one size-based
\* allocate(size) on a freshly constructed manager and maps the weights
\* lazily (Weights::Mmap) exactly when the returned tier is Slow, reading
\* them eagerly (Weights::Memory) for any other tier; the tier returned in a
\* given environment depends only on the size, not on earlier loads.
C27_LoaderPlacement ==
    (last.op = "load_model" /\ last.ret = "Ok") =>
        /\ last.tier = allocate(Call(new(detect(last.env))), last.file.size).ret
        /\ last.tier = PlacedBySize(detect(last.env), last.file.size)
        /\ Used(last.mgr, last.tier) = last.file.size
        /\ Sum(last.mgr) = last.file.size
        /\ (last.weights = "Mmap" <=> last.tier = "Nvme")
        /\ (last.weights = "Memory" <=> last.tier \in {"Gpu", "Cpu"})

\* test_load_model_mmap: 9000 bytes with the default limits, no Fast tier.
C27_Witness ==
    /\ last.op = "load_model"
    /\ last.ret = "Ok"
    /\ last.env.AMDUDA_HAS_GPU = Ok(<<"0">>)
    /\ last.env.AMDUDA_HAS_NVME = Ok(<<"1">>)
    /\ last.env.AMDUDA_CPU_MEM = NotPresent
    /\ last.file.size = 9000
    /\ last.tier = "Nvme"
    /\ last.weights = "Mmap"

\* ---------------------------------------------------------------------
\* ProceduralFsm.  The machine and the events applied to it so far are
\* kept in `last`; the memory manager plays no part.
\* ---------------------------------------------------------------------
MaxEvents == 4

State == {"FetchToken", "KVCacheUpdate", "ComputeAttention", "OutputToken", "Error"}

Variant(kind, cache_hit) == [kind |-> kind, cache_hit |-> cache_hit]

\* the events on_event matches on
RuntimeEvent ==
    {Variant("TokenFetched", TRUE), Variant("TokenFetched", FALSE), Variant("CacheUpdated", FALSE),
     Variant("AttentionComputed", FALSE), Variant("TokenEmitted", FALSE),
     Variant("Rollback", FALSE), Variant("Error", FALSE)}

on_event_MissSkipsUpdate(state, event) ==
    IF state = "FetchToken" /\ event.kind = "TokenFetched" THEN "ComputeAttention"
    ELSE IF state = "KVCacheUpdate" /\ event.kind = "CacheUpdated" THEN "ComputeAttention"
    ELSE IF state = "ComputeAttention" /\ event.kind = "AttentionComputed" THEN "OutputToken"
    ELSE IF state = "OutputToken" /\ event.kind = "TokenEmitted" THEN "FetchToken"
    ELSE IF event.kind = "Rollback" THEN "FetchToken"
    ELSE IF event.kind = "Error" THEN "Error"
    ELSE state

\* the match of on_event, arm by arm
on_event(state, event) ==
    IF state = "FetchToken" /\ event.kind = "TokenFetched"
    THEN (IF event.cache_hit THEN "ComputeAttention" ELSE "KVCacheUpdate")
    ELSE IF state = "KVCacheUpdate" /\ event.kind = "CacheUpdated" THEN "ComputeAttention"
    ELSE IF state = "ComputeAttention" /\ event.kind = "AttentionComputed" THEN "OutputToken"
    ELSE IF state = "OutputToken" /\ event.kind = "TokenEmitted" THEN "FetchToken"
    ELSE IF event.kind = "Rollback" THEN "FetchToken"
    ELSE IF event.kind = "Error" THEN "Error"
    ELSE state

\* ProceduralFsm::new
InitFsm ==
    /\ last = [op |-> "new", state |-> "FetchToken", trace |-> <<>>]
    /\ mgr = new_with_limits([has_gpu |-> FALSE, has_nvme |-> FALSE], 0, 0, 0)
    /\ allocated = 0
    /\ dropped = 0

OnEvent ==
    /\ Len(last.trace) < MaxEvents
    /\ \E event \in RuntimeEvent :
         last' = [op |-> "on_event",
                  state |-> on_event(last.state, event),
                  trace |-> Append(last.trace,
                                   [from |-> last.state, event |-> event,
                                    to |-> on_event(last.state, event)])]
    /\ UNCHANGED <<mgr, allocated, dropped>>

NextFsm == OnEvent

SpecFsm == InitFsm /\ [][NextFsm]_vars

\* C29: from every state the Error event moves the machine to State::Error,
\* and once the machine is in State::Error every further event of any kind
\* leaves it in State::Error.
C29_ErrorAbsorbing ==
    \A i \in DOMAIN last.trace :
        /\ last.trace[i].event.kind = "Error" => last.trace[i].to = "Error"
        /\ last.trace[i].from = "Error" => last.trace[i].to = "Error"

Steps == {last.trace[i] : i \in DOMAIN last.trace}

\* The step enters the state: it ends there and did not start there.
Enters(t, state) == t.to = state /\ t.from # state

EntersAttentionInOrder(t) ==
    Enters(t, "ComputeAttention") =>
        \/ t.from = "FetchToken" /\ t.event = Variant("TokenFetched", TRUE)
        \/ t.from = "KVCacheUpdate" /\ t.event.kind = "CacheUpdated"

EntersOutputInOrder(t) ==
    Enters(t, "OutputToken") =>
        t.from = "ComputeAttention" /\ t.event.kind = "AttentionComputed"

\* The events of the pipeline, each listed for one state, and Error, listed
\* for every state.
Listed(state, event) ==
    \/ state = "FetchToken" /\ event.kind = "TokenFetched"
    \/ state = "KVCacheUpdate" /\ event.kind = "CacheUpdated"
    \/ state = "ComputeAttention" /\ event.kind = "AttentionComputed"
    \/ state = "OutputToken" /\ event.kind = "TokenEmitted"
    \/ event.kind = "Error"

CacheMiss(t) == t.from = "FetchToken" /\ t.event = Variant("TokenFetched", FALSE)

\* Between a cache miss at step i and an entry into ComputeAttention at a
\* later step j, an event of one of `kinds` was applied.
AttentionAfterMissNeeds(kinds) ==
    \A i \in DOMAIN last.trace, j \in DOMAIN last.trace :
        (i < j /\ CacheMiss(last.trace[i]) /\ Enters(last.trace[j], "ComputeAttention")) =>
            \E k \in (i + 1)..j : last.trace[k].event.kind \in kinds

Names == {"a", "b"}
Symbols == {"go", "stop"}

\* HashMap::get on transitions: the target, or "None"
Absent == "None"

\* StateMachine::new
StateMachine_new(initial) ==
    [current |-> initial,
     states |-> {initial},
     transitions |-> [key \in Names \X Symbols |-> Absent]]

add_state(sm, name) == [sm EXCEPT !.states = @ \cup {name}]

add_transition(sm, from, symbol, to) == [sm EXCEPT !.transitions[<<from, symbol>>] = to]

\* step: the machine after the call and what the call returns
step(sm, symbol) ==
    IF sm.transitions[<<sm.current, symbol>>] # Absent
    THEN [sm |-> [sm EXCEPT !.current = sm.transitions[<<sm.current, symbol>>]],
          ret |-> IF sm.transitions[<<sm.current, symbol>>] \in sm.states
                  THEN sm.transitions[<<sm.current, symbol>>]
                  ELSE "None"]
    ELSE [sm |-> sm, ret |-> "None"]

\* self.states.get(&self.current).expect("current state must exist")
current_state(sm) == IF sm.current \in sm.states THEN sm.current ELSE "panic"

Machine(op, sm, ret, before) == [op |-> op, sm |-> sm, ret |-> ret, before |-> before]

InitSymbolic ==
    /\ \E initial \in Names : last = Machine("new", StateMachine_new(initial), "None", initial)
    /\ mgr = new_with_limits([has_gpu |-> FALSE, has_nvme |-> FALSE], 0, 0, 0)
    /\ allocated = 0
    /\ dropped = 0

AddState ==
    /\ \E name \in Names :
         last' = Machine("add_state", add_state(last.sm, name), "None", last.sm.current)
    /\ UNCHANGED <<mgr, allocated, dropped>>

AddTransition ==
    /\ \E from \in Names, symbol \in Symbols, to \in Names :
         last' = Machine("add_transition", add_transition(last.sm, from, symbol, to),
                         "None", last.sm.current)
    /\ UNCHANGED <<mgr, allocated, dropped>>

StepReturns(r) == last' = Machine("step", r.sm, r.ret, last.sm.current)

StepMachine ==
    /\ \E symbol \in Symbols : StepReturns(step(last.sm, symbol))
    /\ UNCHANGED <<mgr, allocated, dropped>>

CurrentState ==
    /\ last' = Machine("current_state", last.sm, current_state(last.sm), last.sm.current)
    /\ UNCHANGED <<mgr, allocated, dropped>>

NextSymbolic == AddState \/ AddTransition \/ StepMachine \/ CurrentState

SpecSymbolic == InitSymbolic /\ [][NextSymbolic]_vars

\* C31: after any sequence of add_state, add_transition and step calls,
\* whenever step(symbol) returns None the current state is the same as
\* before the call, and the current state always names a registered state,
\* so current_state() never fails with `current state must exist`.
C31_StepNoneKeepsState ==
    /\ (last.op = "step" /\ last.ret = "None") => last.sm.current = last.before
    /\ last.sm.current \in last.sm.states
    /\ last.op = "current_state" => last.ret # "panic"

\* ---------------------------------------------------------------- C32
\* C32: migrate evicts from its destination only for bytes it actually
\* moves: if used[from] = 0 when migrate(from, to, bytes) is called, the call
\* changes no counter of any tier and drops nothing, for every pair of tiers
\* and every bytes.
C32_EmptySourceNoEffect ==
    (ReturnedFrom("migrate") /\ Used(last.pre, last.from) = 0) =>
        /\ mgr = last.pre
        /\ last.dropped = 0

\* ---------------------------------------------------------------- C33
\* The manager driven by allocate, mark_cold and mark_hot alone.
NextNoMigrate == Allocate \/ MarkCold \/ MarkHot \/ Return

SpecNoMigrate == Init /\ [][NextNoMigrate]_vars

\* C33: with both tiers enabled and limit[Fast] <= limit[Medium], every state
\* reachable by allocate, mark_cold and mark_hot calls alone (no migrate)
\* satisfies used[Fast] <= limit[Fast] and used[Medium] <= limit[Medium]: a
\* Fast eviction never overfills Medium.
C33_NoOverfillWithoutMigrate ==
    (mgr.caps.has_gpu /\ mgr.caps.has_nvme /\ mgr.gpu_limit <= mgr.cpu_limit) =>
        /\ mgr.gpu_used <= mgr.gpu_limit
        /\ mgr.cpu_used <= mgr.cpu_limit
        /\ \A i \in DOMAIN last.events :
              /\ last.events[i].post.gpu_used <= mgr.gpu_limit
              /\ last.events[i].post.cpu_used <= mgr.cpu_limit

\* An allocate on a full Fast tier has just pushed bytes into Medium, which
\* in turn pushed bytes into Slow.
C33_Witness ==
    /\ ReturnedFrom("allocate")
    /\ last.ret = "Gpu"
    /\ mgr.caps.has_gpu /\ mgr.caps.has_nvme /\ mgr.gpu_limit <= mgr.cpu_limit
    /\ last.pre.gpu_used = mgr.gpu_limit
    /\ last.pre.cpu_used = mgr.cpu_limit
    /\ mgr.cpu_limit > 0
    /\ mgr.nvme_used > last.pre.nvme_used
    /\ mgr.cpu_used = mgr.cpu_limit

\* ---------------------------------------------------------------- C34
\* C34: in every state reached by allocate, migrate, mark_cold and mark_hot,
\* and after every eviction step inside a call (cold bytes first, then bytes
\* of any kind, pushed down or dropped), each tier's cold counter is at most
\* its used counter, so `used - cold` in mark_cold never underflows.
ColdWithinUsed(m) == \A t \in MemoryTier : Cold(m, t) <= Used(m, t)

C34_ColdAtMostUsed ==
    /\ ColdWithinUsed(mgr)
    /\ ColdWithinUsed(last.mid)
    /\ \A i \in DOMAIN last.events : ColdWithinUsed(last.events[i].post)

\* a call whose eviction first moved cold bytes and then hot bytes out of a
\* tier, or dropped bytes, and left cold bytes behind in some tier
C34_Witness ==
    /\ last.op \in {"allocate", "migrate"}
    /\ \E i \in DOMAIN last.events : last.events[i].phase = "hot"
    /\ \E i \in DOMAIN last.events :
          last.events[i].phase = "cold" /\ Cold(last.events[i].pre, "Gpu") > 0
    /\ last.dropped > 0
    /\ \E t \in MemoryTier : Cold(mgr, t) > 0

\* ---------------------------------------------------------------- C35
\* C35: the tier allocate(bytes) returns is a function of the capabilities,
\* the limits and bytes alone: Gpu if has_gpu and bytes <= gpu_limit, else
\* Cpu if bytes <= cpu_limit, else Nvme, whatever the used and cold counters
\* were when the call started.
TierByConfiguration(m, bytes) ==
    IF m.caps.has_gpu /\ bytes <= m.gpu_limit THEN "Gpu"
    ELSE IF bytes <= m.cpu_limit THEN "Cpu"
    ELSE "Nvme"

C35_TierIndependentOfUsage ==
    ReturnedFrom("allocate") => last.ret = TierByConfiguration(last.pre, last.bytes)

\* allocate returned Cpu although Cpu was too full to take the bytes at entry
C35_Witness ==
    /\ ReturnedFrom("allocate")
    /\ last.ret = "Cpu"
    /\ last.pre.cpu_used + last.bytes > last.pre.cpu_limit
    /\ last.events # <<>>

\* ---------------------------------------------------------------- C36
\* C36: the three used counters plus the bytes dropped by Cpu eviction add up
\* to the bytes passed to allocate.  Call by call: allocate adds exactly its
\* bytes, no other call adds any; no eviction block raises the total, and a
\* block lowers it only in the drop branch of ensure_cpu_space (the slow tier
\* is missing or has no room for the deficit).
DropBranch(e) ==
    /\ e.fn = "ensure_cpu_space"
    /\ ~nvme_takes(e.entry, e.entry.cpu_used + e.bytes - e.entry.cpu_limit)

Charged == IF last.op = "allocate" THEN last.bytes ELSE 0

C36_ChargeConserved ==
    /\ Sum(mgr) + dropped = allocated
    /\ last.op # "none" => Sum(mgr) + last.dropped = Sum(last.pre) + Charged
    /\ \A i \in DOMAIN last.events :
          /\ Sum(last.events[i].post) <= Sum(last.events[i].pre)
          /\ Sum(last.events[i].post) < Sum(last.events[i].pre) => DropBranch(last.events[i])
    /\ last.dropped > 0 => \E i \in DOMAIN last.events : DropBranch(last.events[i])

\* a migrate that moved bytes between tiers after an eviction dropped some,
\* on a manager that already holds charge in two tiers
C36_Witness ==
    /\ ReturnedFrom("migrate")
    /\ last.moved > 0
    /\ last.dropped > 0
    /\ dropped > last.dropped
    /\ mgr.cpu_used > 0 /\ mgr.nvme_used > 0

\* ---------------------------------------------------------------- C37
\* C37: migrate between tiers that are not neighbours (Gpu to Nvme, Nvme to
\* Gpu) or from a tier to itself changes no used and no cold counter, runs no
\* eviction and drops nothing, for every byte count, also when both tiers
\* are available and the source holds bytes.
Adjacent(from, to) ==
    \/ from = "Gpu" /\ to = "Cpu"
    \/ from = "Cpu" /\ to = "Gpu"
    \/ from = "Cpu" /\ to = "Nvme"
    \/ from = "Nvme" /\ to = "Cpu"

C37_NonAdjacentMigrateNoEffect ==
    (ReturnedFrom("migrate") /\ ~Adjacent(last.from, last.to)) =>
        /\ mgr = last.pre
        /\ last.moved = 0
        /\ last.dropped = 0
        /\ last.events = <<>>

\* migrate(Gpu, Nvme, n) with n > 0 on a manager with both tiers whose Gpu
\* holds bytes, some of them cold
C37_Witness ==
    /\ ReturnedFrom("migrate")
    /\ last.from = "Gpu" /\ last.to = "Nvme" /\ last.bytes > 0
    /\ last.pre.caps.has_gpu /\ last.pre.caps.has_nvme
    /\ last.pre.gpu_used > 0 /\ last.pre.gpu_cold > 0
    /\ last.pre.nvme_used < last.pre.nvme_limit

\* ---------------------------------------------------------------- C38
\* C38: every accepted compute or compute_block_sparse call reports the same
\* tier for the keys and for the values, and brings either both buffers'
\* window from Nvme to Cpu or neither: with both on Nvme the two initial
\* migrate(Nvme, Cpu, ..) calls are issued, otherwise the call issues no
\* migrate at all.
IsPrefetch(call) == call.op = "migrate" /\ call.from = "Nvme" /\ call.to = "Cpu"

Accepted == last.op \in {"compute", "compute_block_sparse"} /\ last.ret = "ok"

BothPrefetched ==
    IF last.op = "compute"
    THEN Len(last.calls) = 4 /\ IsPrefetch(last.calls[3]) /\ IsPrefetch(last.calls[4])
    ELSE Len(last.calls) >= 6 /\ IsPrefetch(last.calls[3]) /\ IsPrefetch(last.calls[5])

NonePrefetched == \A i \in DOMAIN last.calls : last.calls[i].op # "migrate"

C38_SameTierBothBuffers ==
    Accepted =>
        /\ Len(last.calls) >= 2
        /\ last.calls[1].ret = last.calls[2].ret
        /\ IF last.calls[1].ret = "Nvme" THEN BothPrefetched ELSE NonePrefetched

\* an accepted call on an engine that already holds bytes in Cpu, whose
\* first allocation pushed bytes out of Cpu, and that reports Cpu for both
C38_Witness ==
    /\ Accepted
    /\ last.pre.cpu_used > 0
    /\ last.calls[1].ret = "Cpu"
    /\ last.calls[2].ret = "Cpu"
    /\ last.calls[1].m.nvme_used + last.dropped > last.pre.nvme_used
    /\ Len(last.calls) = 2

\* ---------------------------------------------------------------- C39
\* C39: the cold marks of the block-sparse cache rotation do not outlive the
\* call: whenever compute or compute_block_sparse has returned, after any
\* sequence of calls on the engine and for all capabilities and limits, the
\* cold counters of Gpu, Cpu and Nvme are all 0.
NoColdBytes(m) == \A t \in MemoryTier : Cold(m, t) = 0

C39_NoColdAfterCall == Accepted => NoColdBytes(mgr)

\* a returned block-sparse call whose rotation marked Cpu bytes cold and moved
\* them to Nvme as cold bytes, on an engine used before
C39_Witness ==
    /\ Accepted
    /\ last.op = "compute_block_sparse"
    /\ Sum(last.pre) > 0
    /\ \E i \in DOMAIN last.calls :
          last.calls[i].op = "mark_cold" /\ last.calls[i].m.cpu_cold > 0
    /\ \E i \in DOMAIN last.calls :
          last.calls[i].op = "migrate" /\ last.calls[i].m.nvme_cold > 0

====
